---------------------------- MODULE Spec2Model ----------------------------
(***************************************************************************)
(* Caching and staleness layer of Livo-API-v2.                             *)
(*                                                                         *)
(*   SpecKey   : cache-key derivation (buildCacheKeyFromUrl)               *)
(*   Spec      : the record store emulated over the key-value backend      *)
(*               (makeBinder.run list upserts, upsertSeasonEpisodes)       *)
(*   SpecFresh : the freshness policy (shouldRefresh)                      *)
(*   SpecRows  : the record store with its scalar tables, its reads and    *)
(*               a backend that may fail or hold undecodable values        *)
(*   SpecServe : the by-id, season and episode request handlers            *)
(*   SpecProxy : the /3/* proxy to the upstream API                        *)
(*   SpecBatch : upsertSeasons / upsertSeasonEpisodes over arrays with     *)
(*               malformed elements and failing statements                 *)
(*   SpecRace  : two concurrent refreshes of one natural key               *)
(*   SpecWait  : handlers waiting for an upstream that may never answer    *)
(*               (with fairness of the event loop)                         *)
(*   SpecServer: the express middleware: routing and CORS headers          *)
(*   SpecStream: the signed stream URL (handleStreamUrl)                   *)
(*   SpecBoot  : startServer waiting for the store (ensureRedisReady)      *)
(*   SpecLists : two run() calls of the list tables in flight at once      *)
(*   SpecNames : the store keys built from natural keys                    *)
(*                                                                         *)
(* Strings that the code inspects character by character (parameter names  *)
(* and values, cache keys) are sequences of one-character strings.         *)
(***************************************************************************)
EXTENDS Integers, Sequences, FiniteSets, TLC

VARIABLES
    url,        \* the request URL handed to buildCacheKeyFromUrl: pathname + searchParams
    locale,     \* default locale of the host running the process (used by localeCompare)
    key,        \* the key buildCacheKeyFromUrl returned for url, NoKey before the call
    store,      \* the key-value backend: store key -> [v: decoded JSON value, ex: expiry seconds]
    clock,      \* Date.now(), counted in ticks of 1/TicksPerSecond second
    last,       \* the record-store operation executed last, with the list it found
    row,        \* the record handed to shouldRefresh (AbsentRow for null)
    table,      \* which shouldRefresh is applied: the series one or the movie one
    verdict,    \* "refresh" when shouldRefresh returned true, "serve" when false, NoVerdict before
    response,   \* what the request handler that ran last answered, NoResponse before
    env,        \* the environment of the server process: which settings are configured
    procs       \* the requests in flight: each one's position in its handler and its locals

vars == <<url, locale, key, store, clock, last, row, table, verdict, response, env, procs>>

(***************************************************************************)
(* JavaScript values                                                       *)
(***************************************************************************)
\* A property that is undefined is a field outside the DOMAIN of the object;
\* null is a value (used for string-valued fields only).
Null == "null"

\* r.f ?? d
OrElse(r, f, d) == IF f \in DOMAIN r THEN r[f] ELSE d

\* the properties of r among fields that JSON.stringify writes: the defined ones
Pick(r, fields) == [f \in fields \cap DOMAIN r |-> r[f]]

RECURSIVE Concat(_)
Concat(ss) == IF ss = <<>> THEN <<>> ELSE Head(ss) \o Concat(Tail(ss))

RECURSIVE SelectSeq2(_, _)
\* the subsequence of s at the positions in keep, in order
SelectSeq2(s, keep) ==
    IF s = <<>> THEN <<>>
    ELSE LET rest == SelectSeq2(Tail(s), {i - 1 : i \in keep \ {1}})
         IN  IF 1 \in keep THEN <<Head(s)>> \o rest ELSE rest

(***************************************************************************)
(* KeyCodec: buildCacheKeyFromUrl                                          *)
(***************************************************************************)
MaxParams == 3

S_api_key == <<"a", "p", "i", "_", "k", "e", "y">>
S_API_KEY == <<"A", "P", "I", "_", "K", "E", "Y">>
S_Api_Key == <<"A", "p", "i", "_", "K", "e", "y">>

CredentialNames == {S_api_key, S_API_KEY, S_Api_Key}
PlainNames == {<<"a">>, <<"t">>, <<"Z">>}
ParamNames == CredentialNames \cup PlainNames
ParamValues == {<<"1">>, <<"&", " ", "=">>}
Pathnames == {<<"/", "3", "/", "t", "v">>}
Locales == {"en", "et"}

Entries == [name : ParamNames, value : ParamValues]
EntryLists == UNION {[1..n -> Entries] : n \in 0..MaxParams}
Urls == [pathname : Pathnames, searchParams : EntryLists]

NoKey == <<"<none>">>

\* String.prototype.toLowerCase on one character
LowerOf(c) ==
    CASE c = "A" -> "a" [] c = "E" -> "e" [] c = "I" -> "i" [] c = "K" -> "k"
      [] c = "P" -> "p" [] c = "Y" -> "y" [] c = "Z" -> "z" [] OTHER -> c

toLowerCase(s) == [i \in 1..Len(s) |-> LowerOf(s[i])]

IsUpper(c) == LowerOf(c) # c

\* primary collation weight of a character in the given locale: punctuation
\* before digits before letters; Estonian places z between s and t
PrimaryWeight(loc, c) ==
    LET l == LowerOf(c)
    IN  CASE l = "_" -> 1
          [] l = "1" -> 11 [] l = "2" -> 12 [] l = "3" -> 13
          [] l = "a" -> 21 [] l = "e" -> 25 [] l = "i" -> 29
          [] l = "k" -> 31 [] l = "p" -> 36 [] l = "t" -> 40 [] l = "v" -> 42
          [] l = "y" -> 45
          [] l = "z" -> IF loc = "et" THEN 39 ELSE 46
          [] OTHER -> 0

RECURSIVE LexCompare(_, _)
\* -1, 0 or 1: lexicographic comparison of two sequences of numbers
LexCompare(x, y) ==
    IF x = <<>> THEN (IF y = <<>> THEN 0 ELSE -1)
    ELSE IF y = <<>> THEN 1
    ELSE IF Head(x) < Head(y) THEN -1
    ELSE IF Head(x) > Head(y) THEN 1
    ELSE LexCompare(Tail(x), Tail(y))

\* a.localeCompare(b) under the host's default locale: letters first (case
\* ignored), then lower case before upper case
localeCompare(loc, a, b) ==
    LET prim == LexCompare([i \in 1..Len(a) |-> PrimaryWeight(loc, a[i])],
                           [i \in 1..Len(b) |-> PrimaryWeight(loc, b[i])])
    IN  IF prim # 0 THEN prim
        ELSE LexCompare([i \in 1..Len(a) |-> IF IsUpper(a[i]) THEN 1 ELSE 0],
                        [i \in 1..Len(b) |-> IF IsUpper(b[i]) THEN 1 ELSE 0])

\* UTF-16 code unit of a character
CodeUnit(c) ==
    CASE c = " " -> 32 [] c = "&" -> 38 [] c = "1" -> 49 [] c = "2" -> 50
      [] c = "3" -> 51 [] c = "=" -> 61
      [] c = "A" -> 65 [] c = "E" -> 69 [] c = "I" -> 73 [] c = "K" -> 75
      [] c = "P" -> 80 [] c = "Y" -> 89 [] c = "Z" -> 90 [] c = "_" -> 95
      [] c = "a" -> 97 [] c = "e" -> 101 [] c = "i" -> 105
      [] c = "k" -> 107 [] c = "p" -> 112 [] c = "t" -> 116 [] c = "v" -> 118
      [] c = "y" -> 121 [] c = "z" -> 122
      [] OTHER -> 0

\* the filter of buildCacheKeyFromUrl: k.toLowerCase() !== "api_key"
KeepCaseSensitive(k) == k # S_api_key
KeepParam(k) == toLowerCase(k) # S_api_key

FilterEntries(entries) ==
    SelectSeq2(entries, {i \in 1..Len(entries) : KeepParam(entries[i].name)})

RECURSIVE InsertSorted(_, _, _)
\* e placed behind every element of the sorted list that does not compare greater
InsertSorted(loc, sorted, e) ==
    IF sorted = <<>> THEN <<e>>
    ELSE LET lastElt == sorted[Len(sorted)]
         IN  IF localeCompare(loc, lastElt.name, e.name) <= 0
             THEN Append(sorted, e)
             ELSE Append(InsertSorted(loc, SubSeq(sorted, 1, Len(sorted) - 1), e), lastElt)

RECURSIVE StableSort(_, _)
StableSort(loc, entries) ==
    IF entries = <<>> THEN <<>>
    ELSE InsertSorted(loc, StableSort(loc, SubSeq(entries, 1, Len(entries) - 1)),
                      entries[Len(entries)])

\* entries.sort(([a], [b]) => a.localeCompare(b)); Array.prototype.sort is stable
SortUnsorted(loc, entries) == entries
SortEntries(loc, entries) == StableSort(loc, entries)

\* application/x-www-form-urlencoded byte serializer, one character
EncodeChar(c) ==
    CASE c = " " -> <<"+">>
      [] c = "&" -> <<"%", "2", "6">>
      [] c = "=" -> <<"%", "3", "D">>
      [] c = "+" -> <<"%", "2", "B">>
      [] c = "%" -> <<"%", "2", "5">>
      [] c = "?" -> <<"%", "3", "F">>
      [] c = "/" -> <<"%", "2", "F">>
      [] OTHER -> <<c>>

Encode(s) == Concat([i \in 1..Len(s) |-> EncodeChar(s[i])])

RECURSIVE JoinWith(_, _)
JoinWith(parts, sep) ==
    IF parts = <<>> THEN <<>>
    ELSE IF Len(parts) = 1 THEN parts[1]
    ELSE parts[1] \o sep \o JoinWith(Tail(parts), sep)

\* URLSearchParams.prototype.toString of the appended entries
SerializeParams(entries) ==
    JoinWith([i \in 1..Len(entries) |->
                 Encode(entries[i].name) \o <<"=">> \o Encode(entries[i].value)],
             <<"&">>)

buildCacheKeyFromUrl(loc, u) ==
    LET entries == SortEntries(loc, FilterEntries(u.searchParams))
        query == SerializeParams(entries)
    IN  IF query # <<>> THEN u.pathname \o <<"?">> \o query ELSE u.pathname

\* the inverse of EncodeChar on an escape sequence: percent-decoding
DecodeEscape(h1, h2) ==
    CASE h1 = "2" /\ h2 = "6" -> "&"
      [] h1 = "3" /\ h2 = "D" -> "="
      [] h1 = "2" /\ h2 = "B" -> "+"
      [] h1 = "2" /\ h2 = "5" -> "%"
      [] h1 = "3" /\ h2 = "F" -> "?"
      [] h1 = "2" /\ h2 = "F" -> "/"
      [] OTHER -> "?"

RECURSIVE Decode(_)
\* application/x-www-form-urlencoded decoding of a name or value
Decode(s) ==
    IF s = <<>> THEN <<>>
    ELSE IF Head(s) = "+" THEN <<" ">> \o Decode(Tail(s))
    ELSE IF Head(s) = "%" /\ Len(s) >= 3
         THEN <<DecodeEscape(s[2], s[3])>> \o Decode(SubSeq(s, 4, Len(s)))
    ELSE <<Head(s)>> \o Decode(Tail(s))

\* index of the first occurrence of c in s, 0 when there is none
IndexOf(s, c) ==
    IF \E i \in 1..Len(s) : s[i] = c
    THEN CHOOSE i \in 1..Len(s) : s[i] = c /\ \A j \in 1..(i - 1) : s[j] # c
    ELSE 0

RECURSIVE SplitOn(_, _)
SplitOn(s, sep) ==
    LET i == IndexOf(s, sep)
    IN  IF i = 0 THEN <<s>>
        ELSE <<SubSeq(s, 1, i - 1)>> \o SplitOn(SubSeq(s, i + 1, Len(s)), sep)

\* the query string of a key: what follows the first "?"
QueryOf(k) ==
    LET i == IndexOf(k, "?") IN IF i = 0 THEN <<>> ELSE SubSeq(k, i + 1, Len(k))

\* new URLSearchParams(query): the (name, value) pairs a reader of the key sees
ParseQuery(q) ==
    LET parts == SelectSeq(SplitOn(q, "&"), LAMBDA p : p # <<>>)
    IN  [i \in 1..Len(parts) |->
            LET eq == IndexOf(parts[i], "=")
            IN  IF eq = 0 THEN [name |-> Decode(parts[i]), value |-> <<>>]
                ELSE [name |-> Decode(SubSeq(parts[i], 1, eq - 1)),
                      value |-> Decode(SubSeq(parts[i], eq + 1, Len(parts[i])))]]

(***************************************************************************)
(* SpecKey: a request URL arrives and its cache key is derived             *)
(***************************************************************************)
NoVerdict == "none"
NoOp == [op |-> "none"]
EmptyStore == <<>>

IdleStore ==
    /\ store = EmptyStore
    /\ clock = 0
    /\ last = NoOp

\* first() found no record: null
AbsentRow == [absent |-> TRUE]

IdleFresh ==
    /\ row = AbsentRow
    /\ table = "none"
    /\ verdict = NoVerdict

\* no request handled yet
NoResponse == [status |-> 0]

\* server.js env with every setting configured; a setting that is not
\* configured is an empty string
ServerEnv ==
    [TMDB_API_KEY |-> "tmdb-key", STREAM_SIGNING_SECRET |-> "secret",
     STREAM_PROXY_BASE |-> "https://proxy.example"]

NoProcs == <<>>

IdleServe ==
    /\ response = NoResponse
    /\ env = ServerEnv
    /\ procs = NoProcs

IdleKey ==
    /\ url = [pathname |-> <<"/">>, searchParams |-> <<>>]
    /\ locale = "en"
    /\ key = NoKey

InitKey ==
    /\ url \in Urls
    /\ locale \in Locales
    /\ key = NoKey
    /\ IdleStore
    /\ IdleFresh
    /\ IdleServe

DeriveKey ==
    /\ key = NoKey
    /\ key' = buildCacheKeyFromUrl(locale, url)
    /\ UNCHANGED <<env, procs, response, url, locale, store, clock, last, row, table, verdict>>

NextKey == DeriveKey

SpecKey == InitKey /\ [][NextKey]_vars

(***************************************************************************)
(* RecordStore: the DB shim over the key-value backend                     *)
(***************************************************************************)
CACHE_INTERVAL_SECONDS == 30 * 24 * 60 * 60

MaxSeasons == 2
MaxEpisodes == 2
MaxGuests == 2
MaxBatch == 1
MaxTicks == 1

SeriesIds == {1}
Languages == {"en"}
SeasonNumbers == {1}
SeasonIds == 1..MaxSeasons
EpisodeIds == 1..MaxEpisodes
GuestIds == 1..MaxGuests

\* resolution of the clock of the model (the integers of the checker have 32 bits)
TicksPerSecond == 2

\* Math.floor(Date.now() / 1000)
NowSeconds(ticks) == ticks \div TicksPerSecond

\* cacheGet: the decoded value under key, null when the key is absent or when
\* JSON.parse throws on the raw text (an entry without a decoded value v)
cacheGet(st, k) == IF k \in DOMAIN st /\ "v" \in DOMAIN st[k] THEN st[k].v ELSE Null

\* a SET that never passes EX
cacheSetNoExpiry(st, k, valueObj, ttlSeconds) == (k :> [v |-> valueObj, ex |-> 0]) @@ st

\* cacheSet: SET key value EX ttl when ttl is finite and positive, else SET key value
cacheSet(st, k, valueObj, ttlSeconds) ==
    (k :> [v |-> valueObj, ex |-> IF ttlSeconds > 0 THEN ttlSeconds ELSE 0]) @@ st

\* (await cacheGet(env, key)) || []
ListAt(st, k) == LET v == cacheGet(st, k) IN IF v = Null THEN <<>> ELSE v

SeasonsKey(seriesId, language) ==
    "/series/" \o ToString(seriesId) \o "/seasons?lang=" \o language

EpisodesKey(seriesId, season_number, language) ==
    "/series/" \o ToString(seriesId) \o "/season/" \o ToString(season_number)
        \o "/episodes?lang=" \o language

\* arr.findIndex((x) => Number(x[idField]) === Number(id)), 0 for -1
FindIndex(arr, idField, id) ==
    IF \E i \in 1..Len(arr) : idField \in DOMAIN arr[i] /\ arr[i][idField] = id
    THEN CHOOSE i \in 1..Len(arr) :
            /\ idField \in DOMAIN arr[i] /\ arr[i][idField] = id
            /\ \A j \in 1..(i - 1) : ~(idField \in DOMAIN arr[j] /\ arr[j][idField] = id)
    ELSE 0

\* if (idx >= 0) arr[idx] = elt; else arr.push(elt)
AlwaysPush(arr, idx, elt) == Append(arr, elt)
ReplaceOrPush(arr, idx, elt) ==
    IF idx > 0 THEN [arr EXCEPT ![idx] = elt] ELSE Append(arr, elt)

\* run() of INSERT INTO series_seasons with the bound parameters p
RunInsertSeason(st, p) ==
    LET k == SeasonsKey(p.seriesId, p.language)
        arr == ListAt(st, k)
        season == Pick(p, {"season_number", "name", "overview", "poster_path", "air_date",
                           "episode_count", "vote_average", "updated_at"})
                  @@ [id |-> p.season_id]
        idx == FindIndex(arr, "id", p.season_id)
    IN  cacheSet(st, k, ReplaceOrPush(arr, idx, season), CACHE_INTERVAL_SECONDS)

\* (arr.find((e) => Number(e.episode_id) === Number(episode_id))?.guest_stars) || []
GuestStarsDropped(arr, episode_id) == <<>>
GuestStarsCarried(arr, episode_id) ==
    LET idx == FindIndex(arr, "episode_id", episode_id)
    IN  IF idx > 0 /\ "guest_stars" \in DOMAIN arr[idx] THEN arr[idx].guest_stars ELSE <<>>

\* run() of INSERT INTO series_episodes with the bound parameters p
RunInsertEpisode(st, p) ==
    LET k == EpisodesKey(p.seriesId, p.season_number, p.language)
        arr == ListAt(st, k)
        ep == Pick(p, {"episode_number", "name", "overview", "still_path", "air_date",
                       "vote_average", "vote_count", "updated_at"})
              @@ [series_id |-> p.seriesId, id |-> p.episode_id, episode_id |-> p.episode_id,
                  guest_stars |-> GuestStarsCarried(arr, p.episode_id)]
        idx == FindIndex(arr, "episode_id", p.episode_id)
    IN  cacheSet(st, k, ReplaceOrPush(arr, idx, ep), CACHE_INTERVAL_SECONDS)

\* if (idx < 0) arr.push({ series_id, id, episode_id, episode_number, guest_stars: [] })
NoPlaceholder(arr, p) == arr
WithPlaceholder(arr, p) ==
    IF FindIndex(arr, "episode_id", p.episode_id) = 0
    THEN Append(arr, Pick(p, {"episode_number"})
                     @@ [series_id |-> p.seriesId, id |-> p.episode_id,
                         episode_id |-> p.episode_id, guest_stars |-> <<>>])
    ELSE arr

\* run() of INSERT INTO episode_guest_stars with the bound parameters p; the
\* bound updated_at is not written anywhere. When no episode is found the
\* property access on undefined throws, and run() swallows it without a write.
RunInsertGuestStar(st, p) ==
    LET k == EpisodesKey(p.seriesId, p.season_number, p.language)
        arr == WithPlaceholder(ListAt(st, k), p)
        eidx == FindIndex(arr, "episode_id", p.episode_id)
    IN  IF eidx = 0 THEN st
        ELSE LET episode == arr[eidx]
                 guests == OrElse(episode, "guest_stars", <<>>)
                 guest == Pick(p, {"name", "original_name", "character", "profile_path"})
                          @@ [id |-> p.guest_id, order |-> p.order_index]
                 gidx == FindIndex(guests, "id", p.guest_id)
                 episode2 == [guest_stars |-> ReplaceOrPush(guests, gidx, guest)] @@ episode
             IN  cacheSet(st, k, [arr EXCEPT ![eidx] = episode2], CACHE_INTERVAL_SECONDS)

(***************************************************************************)
(* The callers of the shim in routes/series.js                             *)
(***************************************************************************)
\* typeof x.id === "number"
HasNumberId(x) == "id" \in DOMAIN x /\ x.id \in Int

\* the .bind(...) of upsertSeasons for one season of the upstream payload
BindSeason(seriesId, language, season, now) ==
    Pick(season, {"season_number", "name", "overview", "poster_path", "air_date",
                  "episode_count"})
    @@ [seriesId |-> seriesId, language |-> language, season_id |-> season.id,
        vote_average |-> OrElse(season, "vote_average", 0), updated_at |-> now]

RECURSIVE upsertSeasons(_, _, _, _, _)
upsertSeasons(st, seriesId, language, seasons, now) ==
    IF seasons = <<>> THEN st
    ELSE LET season == Head(seasons)
             st1 == IF HasNumberId(season)
                    THEN RunInsertSeason(st, BindSeason(seriesId, language, season, now))
                    ELSE st
         IN  upsertSeasons(st1, seriesId, language, Tail(seasons), now)

\* the .bind(...) of the series_episodes statement of upsertSeasonEpisodes
BindEpisode(seriesId, seasonNumber, language, episode, now) ==
    Pick(episode, {"episode_number", "name", "overview", "still_path", "air_date"})
    @@ [seriesId |-> seriesId, language |-> language, season_number |-> seasonNumber,
        episode_id |-> episode.id,
        vote_average |-> OrElse(episode, "vote_average", 0),
        vote_count |-> OrElse(episode, "vote_count", 0),
        updated_at |-> now]

\* the .bind(...) of the episode_guest_stars statement of upsertSeasonEpisodes;
\* guest.order is always present in the payloads drawn here (guest.order ?? null)
BindGuestStar(seriesId, seasonNumber, language, episode, guest, now) ==
    Pick(episode, {"episode_number"})
    @@ Pick(guest, {"name", "original_name", "character", "profile_path"})
    @@ [seriesId |-> seriesId, language |-> language, season_number |-> seasonNumber,
        episode_id |-> episode.id, guest_id |-> guest.id, order_index |-> guest.order,
        updated_at |-> now]

RECURSIVE upsertGuestStars(_, _, _, _, _, _, _)
\* the inner loop of upsertSeasonEpisodes over episode.guest_stars
upsertGuestStars(st, seriesId, seasonNumber, language, episode, guests, now) ==
    IF guests = <<>> THEN st
    ELSE LET guest == Head(guests)
             st1 == IF HasNumberId(guest)
                    THEN RunInsertGuestStar(st, BindGuestStar(seriesId, seasonNumber,
                                                              language, episode, guest, now))
                    ELSE st
         IN  upsertGuestStars(st1, seriesId, seasonNumber, language, episode,
                              Tail(guests), now)

RECURSIVE upsertSeasonEpisodes(_, _, _, _, _, _)
upsertSeasonEpisodes(st, seriesId, seasonNumber, language, episodes, now) ==
    IF episodes = <<>> THEN st
    ELSE LET episode == Head(episodes)
             st1 == IF HasNumberId(episode)
                    THEN LET st0 == RunInsertEpisode(st, BindEpisode(seriesId, seasonNumber,
                                                                     language, episode, now))
                         IN  IF "guest_stars" \in DOMAIN episode
                             THEN upsertGuestStars(st0, seriesId, seasonNumber, language,
                                                   episode, episode.guest_stars, now)
                             ELSE st0
                    ELSE st
         IN  upsertSeasonEpisodes(st1, seriesId, seasonNumber, language, Tail(episodes), now)

(***************************************************************************)
(* Spec: upstream payloads are upserted into an initially empty store      *)
(***************************************************************************)
MaxOps == 3

\* seasons of an upstream series payload: a complete and a sparse one per id
SeasonObjects ==
    {[id |-> i, season_number |-> i, name |-> "S", overview |-> "ov", poster_path |-> Null,
      air_date |-> "2020-01-01", episode_count |-> 10, vote_average |-> 7] : i \in SeasonIds}
    \cup {[id |-> i, season_number |-> i] : i \in SeasonIds}

\* guest stars of an upstream episode payload; guest 1 comes in two versions
GuestObjects ==
    {[id |-> g, name |-> "G", original_name |-> "G", character |-> c,
      profile_path |-> Null, order |-> g - 1] :
        g \in GuestIds, c \in {"c-a"}}
    \cup {[id |-> 1, name |-> "G", original_name |-> "G", character |-> "c-b",
           profile_path |-> Null, order |-> 0]}

\* episodes of an upstream season payload, without the guest_stars property:
\* a complete and a sparse one per id
EpisodeObjects ==
    {[id |-> i, episode_number |-> i, name |-> "E", overview |-> "ov", still_path |-> Null,
      air_date |-> "2020-01-01", vote_average |-> 7, vote_count |-> 10] : i \in EpisodeIds}
    \cup {[id |-> i, episode_number |-> i] : i \in EpisodeIds}

\* the guest_stars arrays an episode payload may carry: credits in cast order
GuestLists ==
    {gs \in UNION {[1..n -> GuestObjects] : n \in 0..MaxGuests} :
        \A i, j \in 1..Len(gs) : i < j => gs[i].id < gs[j].id}

EpisodePayloads ==
    EpisodeObjects \cup {e @@ [guest_stars |-> gs] : e \in EpisodeObjects, gs \in GuestLists}

Batches == UNION {[1..n -> EpisodePayloads] : n \in 1..MaxBatch}

OpsDone == IF last.op = "none" THEN 0 ELSE last.n

Init ==
    /\ store = EmptyStore
    /\ clock = 0
    /\ last = NoOp
    /\ IdleKey
    /\ IdleFresh
    /\ IdleServe

\* time passes
Tick ==
    /\ clock < MaxTicks * TicksPerSecond
    /\ clock' = clock + TicksPerSecond
    /\ UNCHANGED <<env, procs, response, store, last, url, locale, key, row, table, verdict>>

\* upsertSeasons with a one-season payload
InsertSeason ==
    /\ OpsDone < MaxOps
    /\ \E seriesId \in SeriesIds, language \in Languages, season \in SeasonObjects :
          LET k == SeasonsKey(seriesId, language)
          IN  /\ store' = upsertSeasons(store, seriesId, language, <<season>>, NowSeconds(clock))
              /\ last' = [op |-> "season", n |-> OpsDone + 1, key |-> k, id |-> season.id,
                          before |-> ListAt(store, k), now |-> NowSeconds(clock),
                          arg |-> season]
    /\ UNCHANGED <<env, procs, response, clock, url, locale, key, row, table, verdict>>

\* INSERT INTO series_episodes for one episode that carries no guest_stars
InsertEpisode ==
    /\ OpsDone < MaxOps
    /\ \E seriesId \in SeriesIds, language \in Languages, seasonNumber \in SeasonNumbers,
          episode \in EpisodeObjects :
          LET k == EpisodesKey(seriesId, seasonNumber, language)
          IN  /\ store' = RunInsertEpisode(store, BindEpisode(seriesId, seasonNumber, language,
                                                              episode, NowSeconds(clock)))
              /\ last' = [op |-> "episode", n |-> OpsDone + 1, key |-> k, id |-> episode.id,
                          before |-> ListAt(store, k), now |-> NowSeconds(clock),
                          arg |-> episode]
    /\ UNCHANGED <<env, procs, response, clock, url, locale, key, row, table, verdict>>

\* INSERT INTO episode_guest_stars for one guest of one episode
InsertGuestStar ==
    /\ OpsDone < MaxOps
    /\ \E seriesId \in SeriesIds, language \in Languages, seasonNumber \in SeasonNumbers,
          episodeId \in EpisodeIds, guest \in GuestObjects :
          LET k == EpisodesKey(seriesId, seasonNumber, language)
              episode == [id |-> episodeId, episode_number |-> episodeId]
          IN  /\ store' = RunInsertGuestStar(store, BindGuestStar(seriesId, seasonNumber,
                                                 language, episode, guest, NowSeconds(clock)))
              /\ last' = [op |-> "guest", n |-> OpsDone + 1, key |-> k, id |-> episodeId,
                          before |-> ListAt(store, k), now |-> NowSeconds(clock),
                          arg |-> guest]
    /\ UNCHANGED <<env, procs, response, clock, url, locale, key, row, table, verdict>>

\* upsertSeasonEpisodes with the episodes of an upstream payload
UpsertSeasonEpisodes ==
    /\ OpsDone < MaxOps
    /\ \E seriesId \in SeriesIds, language \in Languages, seasonNumber \in SeasonNumbers,
          episodes \in Batches :
          LET k == EpisodesKey(seriesId, seasonNumber, language)
          IN  /\ store' = upsertSeasonEpisodes(store, seriesId, seasonNumber, language,
                                               episodes, NowSeconds(clock))
              /\ last' = [op |-> "batch", n |-> OpsDone + 1, key |-> k, id |-> 0,
                          before |-> ListAt(store, k), now |-> NowSeconds(clock),
                          arg |-> episodes]
    /\ UNCHANGED <<env, procs, response, clock, url, locale, key, row, table, verdict>>

Next ==
    \/ Tick
    \/ InsertSeason
    \/ InsertEpisode
    \/ InsertGuestStar
    \/ UpsertSeasonEpisodes

Spec == Init /\ [][Next]_vars

(***************************************************************************)
(* FreshnessPolicy: shouldRefresh of routes/series.js and routes/movie.js   *)
(***************************************************************************)
MaxFreshTicks == 2

\* ageSeconds > CACHE_INTERVAL_SECONDS
AgeAtLeastInterval(ageSeconds) == ageSeconds >= CACHE_INTERVAL_SECONDS
AgeExceedsInterval(ageSeconds) == ageSeconds > CACHE_INTERVAL_SECONDS

\* shouldRefresh of routes/series.js
shouldRefreshSeries(r, ticks) ==
    IF r = AbsentRow THEN TRUE
    ELSE AgeExceedsInterval(NowSeconds(ticks) - r.updated_at)

\* a movie shouldRefresh that looks at the age only
shouldRefreshByAge(r, ticks) ==
    IF r = AbsentRow THEN TRUE
    ELSE AgeExceedsInterval(NowSeconds(ticks) - r.updated_at)

\* shouldRefresh of routes/movie.js
shouldRefreshMovie(r, ticks) ==
    IF r = AbsentRow THEN TRUE
    ELSE LET rating == OrElse(r, "rating", 0)
             ratingCount == OrElse(r, "rating_count", 0)
         IN  IF rating = 0 /\ ratingCount = 0 THEN TRUE
             ELSE AgeExceedsInterval(NowSeconds(ticks) - r.updated_at)

\* the second at which the freshness runs start
FreshStart == CACHE_INTERVAL_SECONDS + 2

\* updated_at of the records: around the staleness boundary of FreshStart
UpdatedAts ==
    {FreshStart - CACHE_INTERVAL_SECONDS - 1, FreshStart - CACHE_INTERVAL_SECONDS,
     FreshStart - CACHE_INTERVAL_SECONDS + 1, FreshStart}

SeriesRows == {[tmdb_id |-> 1, updated_at |-> u] : u \in UpdatedAts}

MovieRows ==
    {[tmdb_id |-> 27205, rating |-> r, rating_count |-> c, updated_at |-> u] :
        r \in {0, 8}, c \in {0, 1000}, u \in UpdatedAts}
    \cup {[tmdb_id |-> 27205, rating_count |-> c, updated_at |-> u] :
        c \in {0, 1000}, u \in UpdatedAts}
    \cup {[tmdb_id |-> 27205, rating |-> r, updated_at |-> u] :
        r \in {0, 8}, u \in UpdatedAts}

InitFresh ==
    /\ table \in {"series", "movie"}
    /\ row \in {AbsentRow} \cup (IF table = "series" THEN SeriesRows ELSE MovieRows)
    /\ clock \in {FreshStart * TicksPerSecond, (FreshStart + 1) * TicksPerSecond - 1}
    /\ verdict = NoVerdict
    /\ store = EmptyStore
    /\ last = NoOp
    /\ IdleKey
    /\ IdleServe

\* a second passes before the record is looked at
TickFresh ==
    /\ verdict = NoVerdict
    /\ clock < (FreshStart + MaxFreshTicks) * TicksPerSecond
    /\ clock' = clock + TicksPerSecond
    /\ UNCHANGED <<env, procs, response, row, table, verdict, store, last, url, locale, key>>

\* the handler asks shouldRefresh(row)
AskShouldRefresh ==
    /\ verdict = NoVerdict
    /\ verdict' = IF (IF table = "series" THEN shouldRefreshSeries(row, clock)
                                          ELSE shouldRefreshMovie(row, clock))
                  THEN "refresh" ELSE "serve"
    /\ UNCHANGED <<env, procs, response, row, table, clock, store, last, url, locale, key>>

NextFresh == TickFresh \/ AskShouldRefresh

SpecFresh == InitFresh /\ [][NextFresh]_vars

(***************************************************************************)
(* Claims about the cache key                                              *)
(***************************************************************************)
WithParams(u, entries) == [pathname |-> u.pathname, searchParams |-> entries]

Permuted(entries, sigma) == [i \in 1..Len(entries) |-> entries[sigma[i]]]

\* sigma keeps the relative order of the entries whose names compare equal
KeepsTieOrder(entries, sigma) ==
    \A i, j \in 1..Len(entries) :
        (i < j /\ localeCompare(locale, entries[sigma[i]].name, entries[sigma[j]].name) = 0)
            => sigma[i] < sigma[j]

\* a name that equals api_key in some letter case
IsCredentialName(n) ==
    /\ Len(n) = Len(S_api_key)
    /\ \A i \in 1..Len(n) : n[i] \in {S_api_key[i], S_API_KEY[i]}

\* C1 as stated: every reordering of the query parameters of the URL yields the
\* key that was derived, also when one name occurs with different values.
C1_AnyOrderSameKey ==
    key # NoKey =>
        \A sigma \in Permutations(1..Len(url.searchParams)) :
            buildCacheKeyFromUrl(locale, WithParams(url, Permuted(url.searchParams, sigma))) = key

\* C1 amended: every reordering of the query parameters that keeps the relative
\* order of the parameters whose names compare equal yields the derived key.
C1_OrderInsensitiveUpToTies ==
    key # NoKey =>
        \A sigma \in Permutations(1..Len(url.searchParams)) :
            KeepsTieOrder(url.searchParams, sigma) =>
                buildCacheKeyFromUrl(locale, WithParams(url, Permuted(url.searchParams, sigma))) = key

\* the key was derived for a URL in which one name occurs with two values next to
\* another name that sorts before it and is listed after it
C1_Witness ==
    /\ key # NoKey
    /\ \E i, j, k \in 1..Len(url.searchParams) :
          /\ i < j /\ j < k
          /\ url.searchParams[i].name = url.searchParams[j].name
          /\ url.searchParams[i].value # url.searchParams[j].value
          /\ KeepParam(url.searchParams[i].name)
          /\ KeepParam(url.searchParams[k].name)
          /\ localeCompare(locale, url.searchParams[k].name, url.searchParams[i].name) < 0

InsertAt(entries, pos, e) ==
    SubSeq(entries, 1, pos) \o <<e>> \o SubSeq(entries, pos + 1, Len(entries))

RemoveAt(entries, pos) ==
    SubSeq(entries, 1, pos - 1) \o SubSeq(entries, pos + 1, Len(entries))

\* the parameter lists one step away from entries by adding a credential
\* parameter anywhere, removing one, or changing the value of one
CredentialEdits(entries) ==
    {InsertAt(entries, pos, [name |-> n, value |-> v]) :
        pos \in 0..Len(entries), n \in CredentialNames, v \in ParamValues}
    \cup {RemoveAt(entries, pos) :
        pos \in {i \in 1..Len(entries) : IsCredentialName(entries[i].name)}}
    \cup UNION {{[entries EXCEPT ![pos].value = v] : v \in ParamValues} :
        pos \in {i \in 1..Len(entries) : IsCredentialName(entries[i].name)}}

\* C2: the derived key does not change when a credential parameter (api_key in
\* any letter case) is added, removed or given another value, and no parameter
\* read back from the key carries such a name.
C2_CredentialIndependent ==
    key # NoKey =>
        /\ \A edited \in CredentialEdits(url.searchParams) :
              buildCacheKeyFromUrl(locale, WithParams(url, edited)) = key
        /\ \A i \in DOMAIN ParseQuery(QueryOf(key)) :
              ~IsCredentialName(ParseQuery(QueryOf(key))[i].name)

\* the key was derived for a URL that carries an upper-case and a mixed-case
\* credential parameter next to an ordinary parameter
C2_Witness ==
    /\ key # NoKey
    /\ \E i, j, k \in 1..Len(url.searchParams) :
          /\ url.searchParams[i].name = S_API_KEY
          /\ url.searchParams[j].name = S_Api_Key
          /\ ~IsCredentialName(url.searchParams[k].name)
    /\ ParseQuery(QueryOf(key)) # <<>>

\* code-unit order of two strings, the comparison of the < operator
CodeUnitCompare(a, b) ==
    LexCompare([i \in 1..Len(a) |-> CodeUnit(a[i])], [i \in 1..Len(b) |-> CodeUnit(b[i])])

\* the remaining parameters ordered by name in code-unit order, equal names in
\* the order of the request
ReferenceOrder(entries) ==
    LET remaining == SelectSeq(entries, LAMBDA e : ~IsCredentialName(e.name))
        sigma == CHOOSE f \in Permutations(1..Len(remaining)) :
                    \A i, j \in 1..Len(remaining) :
                        i < j =>
                            LET c == CodeUnitCompare(remaining[f[i]].name, remaining[f[j]].name)
                            IN  c < 0 \/ (c = 0 /\ f[i] < f[j])
    IN  Permuted(remaining, sigma)

ReferenceKey(u) ==
    LET sorted == ReferenceOrder(u.searchParams)
    IN  IF sorted = <<>> THEN u.pathname
        ELSE u.pathname \o <<"?">> \o
             JoinWith([i \in 1..Len(sorted) |->
                          Encode(sorted[i].name) \o <<"=">> \o Encode(sorted[i].value)],
                      <<"&">>)

\* C3: the derived key equals the reference result: the path alone when no
\* parameter remains after dropping the credential, otherwise path?name=value&...
\* ordered by name under a locale-independent (code-unit) comparison, a repeated
\* parameter kept as two entries.
C3_KeyEqualsReference ==
    key # NoKey => key = ReferenceKey(url)

\* what the claim requires of the key without naming a particular order: the
\* key of a URL is the same on every host, whatever its locale
C3_KeyLocaleIndependent ==
    key # NoKey => \A loc \in Locales : buildCacheKeyFromUrl(loc, url) = key

(***************************************************************************)
(* Claims about the list upserts of the record store                       *)
(***************************************************************************)
Before == last.before
After == ListAt(store, last.key)

\* the positions of the elements of list whose idField is id
PositionsOf(list, idField, id) ==
    {i \in 1..Len(list) : idField \in DOMAIN list[i] /\ list[i][idField] = id}

\* after is before with the element of child id k replaced where it stood, or
\* with one element of id k appended when before held none; all other elements
\* are the same and stay at their positions
UpsertedInPlace(before, after, idField, k) ==
    LET at == PositionsOf(before, idField, k)
    IN  IF at # {}
        THEN /\ Len(after) = Len(before)
             /\ \A j \in 1..Len(before) :
                   IF j \in at THEN j \in PositionsOf(after, idField, k)
                   ELSE after[j] = before[j]
        ELSE /\ Len(after) = Len(before) + 1
             /\ \A j \in 1..Len(before) : after[j] = before[j]
             /\ PositionsOf(after, idField, k) = {Len(after)}

\* the guest_stars of the episode of the given id in an episode list, empty
\* when the list does not hold the episode
GuestsOf(list, episodeId) ==
    LET at == PositionsOf(list, "episode_id", episodeId)
    IN  IF at = {} THEN <<>>
        ELSE LET e == list[CHOOSE i \in at : TRUE]
             IN  IF "guest_stars" \in DOMAIN e THEN e.guest_stars ELSE <<>>

\* C4: a season, episode or guest-star upsert for child id k leaves every other
\* element of the list unchanged and at its position; k is replaced in place
\* when it exists and appended at the end otherwise.
C4_UpsertPreservesSiblings ==
    /\ last.op = "season" =>
          UpsertedInPlace(Before, After, "id", last.id)
    /\ last.op = "episode" =>
          UpsertedInPlace(Before, After, "episode_id", last.id)
    /\ last.op = "guest" =>
          /\ UpsertedInPlace(GuestsOf(Before, last.id), GuestsOf(After, last.id),
                             "id", last.arg.id)
          /\ \A j \in 1..Len(Before) :
                j \notin PositionsOf(Before, "episode_id", last.id) => After[j] = Before[j]
          /\ Len(After) =
                Len(Before) + (IF PositionsOf(Before, "episode_id", last.id) = {} THEN 1 ELSE 0)

\* an episode was upserted again, with changed content, in front of a sibling
C4_Witness ==
    /\ last.op = "episode"
    /\ Len(Before) >= 2
    /\ PositionsOf(Before, "episode_id", last.id) = {1}
    /\ After[1] # Before[1]

ListKeysSeasons == {SeasonsKey(sid, lang) : sid \in SeriesIds, lang \in Languages}
ListKeysEpisodes ==
    {EpisodesKey(sid, sn, lang) : sid \in SeriesIds, sn \in SeasonNumbers, lang \in Languages}

UniqueIds(list, idField) ==
    \A i, j \in 1..Len(list) :
        (i # j /\ idField \in DOMAIN list[i] /\ idField \in DOMAIN list[j])
            => list[i][idField] # list[j][idField]

\* C5: every stored seasons list, every stored episodes list and every embedded
\* guest_stars list holds each child id at most once.
C5_ChildIdsUnique ==
    /\ \A k \in ListKeysSeasons : UniqueIds(ListAt(store, k), "id")
    /\ \A k \in ListKeysEpisodes :
          /\ UniqueIds(ListAt(store, k), "episode_id")
          /\ \A i \in 1..Len(ListAt(store, k)) :
                UniqueIds(GuestsOf(ListAt(store, k), ListAt(store, k)[i].episode_id), "id")

\* a guest star was upserted a second time into an episode that holds two guests
C5_Witness ==
    /\ last.op = "guest"
    /\ PositionsOf(GuestsOf(Before, last.id), "id", last.arg.id) # {}
    /\ Len(GuestsOf(After, last.id)) = MaxGuests

\* the scalar fields an episode upsert writes for the payload e at time now
EpisodeScalars(seriesId, e, now) ==
    Pick(e, {"episode_number", "name", "overview", "still_path", "air_date"})
    @@ [series_id |-> seriesId, id |-> e.id, episode_id |-> e.id,
        vote_average |-> OrElse(e, "vote_average", 0),
        vote_count |-> OrElse(e, "vote_count", 0), updated_at |-> now]

ScalarsOf(stored) == [f \in DOMAIN stored \ {"guest_stars"} |-> stored[f]]

\* C6: an episode upsert without guest-star field for an episode that is stored
\* with a non-empty guest_stars array leaves that array as it was and replaces
\* the scalar fields of the episode.
C6_GuestStarsCarriedForward ==
    (last.op = "episode" /\ GuestsOf(Before, last.id) # <<>>) =>
        \A i \in PositionsOf(Before, "episode_id", last.id) :
            /\ After[i].guest_stars = Before[i].guest_stars
            /\ \E sid \in SeriesIds : ScalarsOf(After[i]) = EpisodeScalars(sid, last.arg, last.now)

\* an episode holding two guests was upserted again with other scalar fields
C6_Witness ==
    /\ last.op = "episode"
    /\ Len(GuestsOf(Before, last.id)) = MaxGuests
    /\ \E i \in PositionsOf(Before, "episode_id", last.id) :
          ScalarsOf(After[i]) # ScalarsOf(Before[i])

\* the stored form of a guest of an upstream payload
GuestRow(g) ==
    Pick(g, {"name", "original_name", "character", "profile_path"})
    @@ [id |-> g.id, order |-> g.order]

IsPlaceholder(e) ==
    DOMAIN e = {"series_id", "id", "episode_id", "episode_number", "guest_stars"}

\* C7: a guest-star upsert for an episode id that the list does not hold appends
\* exactly one placeholder holding only the identifying fields and the guest; a
\* later episode upsert for that id completes the same entry and keeps the guest.
C7_PlaceholderThenCompleted ==
    /\ (last.op = "guest" /\ PositionsOf(Before, "episode_id", last.id) = {}) =>
          /\ Len(After) = Len(Before) + 1
          /\ SubSeq(After, 1, Len(Before)) = Before
          /\ IsPlaceholder(After[Len(After)])
          /\ After[Len(After)].episode_id = last.id
          /\ After[Len(After)].id = last.id
          /\ After[Len(After)].series_id \in SeriesIds
          /\ After[Len(After)].guest_stars = <<GuestRow(last.arg)>>
    /\ last.op = "episode" =>
          \A i \in PositionsOf(Before, "episode_id", last.id) :
              IsPlaceholder(Before[i]) =>
                  /\ Len(After) = Len(Before)
                  /\ PositionsOf(After, "episode_id", last.id) = {i}
                  /\ ~IsPlaceholder(After[i])
                  /\ \E sid \in SeriesIds :
                        ScalarsOf(After[i]) = EpisodeScalars(sid, last.arg, last.now)
                  /\ After[i].guest_stars = Before[i].guest_stars
                  /\ After[i].guest_stars # <<>>

\* the episode upsert found the placeholder that an earlier guest-star upsert
\* had appended behind another episode
C7_Witness ==
    /\ last.op = "episode"
    /\ \E i \in PositionsOf(Before, "episode_id", last.id) :
          i > 1 /\ IsPlaceholder(Before[i])

\* the guests with a numeric id that the payloads of the batch carry for one
\* episode id, in the order of the batch
RECURSIVE IncomingGuests(_, _)
IncomingGuests(episodes, episodeId) ==
    IF episodes = <<>> THEN <<>>
    ELSE LET e == Head(episodes)
             own == IF HasNumberId(e) /\ e.id = episodeId /\ "guest_stars" \in DOMAIN e
                    THEN SelectSeq(e.guest_stars, HasNumberId)
                    ELSE <<>>
         IN  own \o IncomingGuests(Tail(episodes), episodeId)

\* the payloads of the batch that name the episode id
PayloadsFor(episodes, episodeId) ==
    {b \in 1..Len(episodes) : HasNumberId(episodes[b]) /\ episodes[b].id = episodeId}

\* the last version of guest id among the incoming guests
LastVersion(incoming, id) ==
    GuestRow(incoming[CHOOSE j \in PositionsOf(incoming, "id", id) :
                         \A h \in PositionsOf(incoming, "id", id) : h <= j])

\* stored merged with incoming by guest id: every stored guest stays at its
\* position, in the last incoming version of its id when there is one; the
\* incoming guests with new ids follow in the order of their first appearance
MergedByGuestId(merged, stored, incoming) ==
    LET fresh == {j \in 1..Len(incoming) :
                     /\ PositionsOf(stored, "id", incoming[j].id) = {}
                     /\ \A h \in 1..(j - 1) : incoming[h].id # incoming[j].id}
    IN  /\ Len(merged) = Len(stored) + Cardinality(fresh)
        /\ \A i \in 1..Len(stored) :
              merged[i] = IF PositionsOf(incoming, "id", stored[i].id) = {}
                          THEN stored[i]
                          ELSE LastVersion(incoming, stored[i].id)
        /\ \A j \in fresh :
              merged[Len(stored) + Cardinality({h \in fresh : h <= j})]
                  = LastVersion(incoming, incoming[j].id)

\* C8 as stated: after upsertSeasonEpisodes received an episode carrying the
\* guest list G for an episode id that was stored, the stored guest list of the
\* episode is G.
C8_IncomingGuestsReplaceStored ==
    last.op = "batch" =>
        \A b \in 1..Len(last.arg) :
            (/\ "guest_stars" \in DOMAIN last.arg[b]
             /\ PayloadsFor(last.arg, last.arg[b].id) = {b}
             /\ PositionsOf(Before, "episode_id", last.arg[b].id) # {})
                => GuestsOf(After, last.arg[b].id)
                     = [i \in 1..Len(last.arg[b].guest_stars) |->
                           GuestRow(last.arg[b].guest_stars[i])]

\* C8 amended: after upsertSeasonEpisodes, the stored guest list of every episode
\* of the batch is the list stored before merged with the incoming guests by
\* guest id; stored guests that the payload does not name remain stored.
C8_IncomingGuestsMergedIntoStored ==
    last.op = "batch" =>
        \A b \in 1..Len(last.arg) :
            HasNumberId(last.arg[b]) =>
                MergedByGuestId(GuestsOf(After, last.arg[b].id),
                                GuestsOf(Before, last.arg[b].id),
                                IncomingGuests(last.arg, last.arg[b].id))

\* an episode stored with two guests received a payload that names only one of
\* them, in another version
C8_Witness ==
    /\ last.op = "batch"
    /\ \E b \in 1..Len(last.arg) :
          /\ "guest_stars" \in DOMAIN last.arg[b]
          /\ Len(last.arg[b].guest_stars) = 1
          /\ Len(GuestsOf(Before, last.arg[b].id)) = 2
          /\ \E i \in 1..2 :
                /\ GuestsOf(Before, last.arg[b].id)[i].id = last.arg[b].guest_stars[1].id
                /\ GuestsOf(Before, last.arg[b].id)[i] # GuestRow(last.arg[b].guest_stars[1])

\* the record that owns what the last upsert changed carries updated_at, equal
\* to the time of the upsert
StampedAt(list, idField, id, now) ==
    /\ PositionsOf(list, idField, id) # {}
    /\ \A i \in PositionsOf(list, idField, id) :
          "updated_at" \in DOMAIN list[i] /\ list[i].updated_at = now

\* C9: every upsert sets updated_at of the owning record to the time of the
\* upsert; a guest-star upsert sets updated_at of the owning episode.
C9_UpsertStampsOwningRecord ==
    /\ last.op = "season" => StampedAt(After, "id", last.id, last.now)
    /\ last.op = "episode" => StampedAt(After, "episode_id", last.id, last.now)
    /\ last.op = "guest" => StampedAt(After, "episode_id", last.id, last.now)
    /\ last.op = "batch" =>
          \A b \in 1..Len(last.arg) :
              HasNumberId(last.arg[b]) =>
                  StampedAt(After, "episode_id", last.arg[b].id, last.now)

\* C9 for an episode that is stored with its own data: a guest-star upsert
\* at a later time sets its updated_at to that time
C9_GuestUpsertRestampsStoredEpisode ==
    (/\ last.op = "guest"
     /\ \E i \in PositionsOf(Before, "episode_id", last.id) : ~IsPlaceholder(Before[i]))
        => StampedAt(After, "episode_id", last.id, last.now)

(***************************************************************************)
(* Claims about the freshness policy                                       *)
(***************************************************************************)
\* the age of the present record, in seconds, when shouldRefresh was asked
AgeOfRow == NowSeconds(clock) - row.updated_at

\* a movie record whose rating and rating_count are both zero or missing
NeverEnriched ==
    /\ table = "movie"
    /\ (IF "rating" \in DOMAIN row THEN row.rating = 0 ELSE TRUE)
    /\ (IF "rating_count" \in DOMAIN row THEN row.rating_count = 0 ELSE TRUE)

\* C10: an absent record is stale; a present record (for a movie: one whose
\* rating and rating_count are not both zero) is stale when it is more than 30
\* days (2592000 s) old and fresh when it is 2592000 s old or younger.
C10_StaleStrictlyAfterInterval ==
    verdict # NoVerdict =>
        IF row = AbsentRow THEN verdict = "refresh"
        ELSE ~NeverEnriched =>
                /\ AgeOfRow >= 2592000 + 1 => verdict = "refresh"
                /\ AgeOfRow <= 2592000 => verdict = "serve"

\* shouldRefresh answered "fresh" for a record that is exactly 2592000 s old
C10_Witness ==
    /\ verdict = "serve"
    /\ row # AbsentRow
    /\ AgeOfRow = 2592000

(***************************************************************************)
(* The scalar tables of the record store (makeBinder.run, makeBinder.first) *)
(***************************************************************************)
MovieIds == {27205}
ChannelIds == {"ch1"}

MovieIdKey(tmdbId, language) ==
    "/movies/id/" \o ToString(tmdbId) \o "?lang=" \o language

MovieChannelKey(channelId, language) ==
    "/movies/channel/" \o channelId \o "?lang=" \o language

SeriesIdKey(tmdbId, language) ==
    "/series/id/" \o ToString(tmdbId) \o "?lang=" \o language

\* JSON.stringify of the arrays that are bound as text; the arrays drawn here
\* hold at most one element
JsonStringifyStrings(arr) ==
    IF arr = <<>> THEN "[]" ELSE "[\"" \o arr[1] \o "\"]"

JsonStringifyNumbers(arr) ==
    IF arr = <<>> THEN "[]" ELSE "[" \o ToString(arr[1]) \o "]"

JsonStringifyCreators(arr) ==
    IF arr = <<>> THEN "[]"
    ELSE "[{\"id\":" \o ToString(arr[1].id) \o ",\"name\":\"" \o arr[1].name \o "\"}]"

\* parseJsonArray: [] for an empty or undecodable text or a text that is no array
parseJsonArray(value) ==
    CASE value = "[\"Drama\"]" -> <<"Drama">>
      [] value = "[18]" -> <<18>>
      [] value = "[\"Ann\"]" -> <<"Ann">>
      [] value = "[\"/p.jpg\"]" -> <<"/p.jpg">>
      [] value = "[{\"id\":7,\"name\":\"Cy\"}]" -> <<[id |-> 7, name |-> "Cy"]>>
      [] OTHER -> <<>>

\* x || "[]" for a bound text
OrEmptyArrayText(p, f) == IF f \in DOMAIN p /\ p[f] # "" THEN p[f] ELSE "[]"

MovieRowFields ==
    {"title", "overview", "release_date", "poster_path", "rating", "rating_count",
     "director_name", "updated_at"}

\* the row object of the two movie branches of run()
MovieRowOf(p) ==
    Pick(p, MovieRowFields)
    @@ [tmdb_id |-> p.tmdbId,
        genres |-> OrEmptyArrayText(p, "genres"),
        cast_names |-> OrEmptyArrayText(p, "cast_names"),
        cast_profile_paths |-> OrEmptyArrayText(p, "cast_profile_paths")]

\* an UPDATE of the changed columns only: the stored rating_count stays
RunUpdateMovieByChannel(st, p) ==
    LET k == MovieChannelKey(p.channelId, p.language)
        r == MovieRowOf(p)
    IN  cacheSet(st, k,
                 IF k \in DOMAIN st
                 THEN [r EXCEPT !.rating_count = st[k].v.rating_count]
                 ELSE r,
                 CACHE_INTERVAL_SECONDS)

\* run() of INSERT INTO movies_by_channel with the bound parameters p
RunInsertMovieByChannel(st, p) ==
    cacheSet(st, MovieChannelKey(p.channelId, p.language), MovieRowOf(p),
             CACHE_INTERVAL_SECONDS)

\* run() of INSERT INTO movies_by_id with the bound parameters p
RunInsertMovieById(st, p) ==
    cacheSet(st, MovieIdKey(p.tmdbId, p.language), MovieRowOf(p), CACHE_INTERVAL_SECONDS)

SeriesRowFields ==
    {"original_language", "overview", "original_name", "number_of_episodes",
     "number_of_seasons", "poster_path", "first_air_date", "name", "vote_average",
     "vote_count", "updated_at"}

\* run() of INSERT INTO series_by_id with the bound parameters p
RunInsertSeries(st, p) ==
    cacheSet(st, SeriesIdKey(p.tmdbId, p.language),
             Pick(p, SeriesRowFields)
             @@ [tmdb_id |-> p.tmdbId,
                 genre_ids |-> OrEmptyArrayText(p, "genre_ids"),
                 created_by |-> OrEmptyArrayText(p, "created_by")],
             CACHE_INTERVAL_SECONDS)

\* the state of the backend while one operation runs: whether client.get and
\* client.set answer or throw
Backends == [reads : BOOLEAN, writes : BOOLEAN]
Healthy == [reads |-> TRUE, writes |-> TRUE]

\* run() swallows what the backend throws: a scalar branch only writes
RunScalar(st, be, st1) == IF be.writes THEN st1 ELSE st

\* a list branch reads the list and then writes it
RunList(st, be, st1) == IF be.reads /\ be.writes THEN st1 ELSE st

\* first() of the three scalar tables: v || null, null when cacheGet throws
\* a first() that answers from the stored value although client.get threw
FirstRowDespiteFailure(st, be, k) ==
    IF k \in DOMAIN st /\ "v" \in DOMAIN st[k] THEN st[k].v ELSE AbsentRow

FirstRow(st, be, k) ==
    IF be.reads /\ k \in DOMAIN st /\ "v" \in DOMAIN st[k] THEN st[k].v ELSE AbsentRow

\* first() of FROM series_episodes ... LIMIT 1: the stored episode with that number
FirstEpisode(st, be, seriesId, language, seasonNumber, episodeNumber) ==
    LET episodes == IF be.reads THEN ListAt(st, EpisodesKey(seriesId, seasonNumber, language))
                    ELSE <<>>
        idx == FindIndex(episodes, "episode_number", episodeNumber)
    IN  IF idx > 0 THEN episodes[idx] ELSE AbsentRow

\* first() of a statement that no branch of the shim recognises
FirstUnmatched == AbsentRow

\* all() of FROM series_seasons and of FROM series_episodes ... ORDER BY
AllList(st, be, k) == IF be.reads THEN ListAt(st, k) ELSE <<>>

RECURSIVE FlattenGuests(_)
\* the loop of all() of FROM episode_guest_stars over the episodes of the season
FlattenGuests(episodes) ==
    IF episodes = <<>> THEN <<>>
    ELSE LET ep == Head(episodes)
             list == OrElse(ep, "guest_stars", <<>>)
         IN  [i \in 1..Len(list) |->
                 Pick(list[i], {"name", "original_name", "character", "profile_path"})
                 @@ Pick(ep, {"episode_number"})
                 @@ [episode_id |-> OrElse(ep, "episode_id", OrElse(ep, "id", Null)),
                     guest_id |-> list[i].id,
                     order_index |-> OrElse(list[i], "order", Null)]]
             \o FlattenGuests(Tail(episodes))

\* all() of FROM episode_guest_stars: every guest of every episode of the season
AllGuestStars(st, be, seriesId, language, seasonNumber) ==
    FlattenGuests(AllList(st, be, EpisodesKey(seriesId, seasonNumber, language)))

(***************************************************************************)
(* The callers of the scalar tables                                        *)
(***************************************************************************)
\* the property of r named from, bound under the name to
Renamed(r, from, to) == [f \in (IF from \in DOMAIN r THEN {to} ELSE {}) |-> r[from]]

\* the values upsertMovieByChannel and upsertMovieById bind after the key columns
BindMovie(payload, now) ==
    Renamed(payload, "title", "title") @@ Renamed(payload, "overview", "overview")
    @@ Renamed(payload, "releaseDate", "release_date")
    @@ Renamed(payload, "posterPath", "poster_path")
    @@ Renamed(payload, "directorName", "director_name")
    @@ [tmdbId |-> payload.movieId,
        genres |-> JsonStringifyStrings(OrElse(payload, "genres", <<>>)),
        rating |-> OrElse(payload, "rating", 0),
        rating_count |-> OrElse(payload, "ratingCount", 0),
        cast_names |-> JsonStringifyStrings(OrElse(payload, "cast", <<>>)),
        cast_profile_paths |-> JsonStringifyStrings(OrElse(payload, "castProfilePaths", <<>>)),
        updated_at |-> now]

upsertMovieByChannel(st, be, channelId, language, payload, now) ==
    RunScalar(st, be,
              RunInsertMovieByChannel(st, BindMovie(payload, now)
                                          @@ [channelId |-> channelId, language |-> language]))

upsertMovieById(st, be, language, payload, now) ==
    RunScalar(st, be,
              RunInsertMovieById(st, BindMovie(payload, now) @@ [language |-> language]))

\* the .bind(...) of upsertSeries
BindSeries(language, item, now) ==
    Pick(item, {"original_language", "overview", "original_name", "poster_path",
                "first_air_date", "name"})
    @@ [tmdbId |-> item.id, language |-> language,
        genre_ids |-> JsonStringifyNumbers(OrElse(item, "genre_ids", <<>>)),
        created_by |-> JsonStringifyCreators(OrElse(item, "created_by", <<>>)),
        number_of_episodes |-> OrElse(item, "number_of_episodes", 0),
        number_of_seasons |-> OrElse(item, "number_of_seasons", 0),
        vote_average |-> OrElse(item, "vote_average", 0),
        vote_count |-> OrElse(item, "vote_count", 0),
        updated_at |-> now]

upsertSeries(st, be, language, item, now) ==
    RunScalar(st, be, RunInsertSeries(st, BindSeries(language, item, now)))

\* isExtendedDataMissing; the numeric columns of a stored row are numbers or
\* missing, never null
isExtendedDataMissing(r) ==
    LET createdBy == parseJsonArray(OrElse(r, "created_by", ""))
        looksLikeSearchOnly ==
            /\ Len(createdBy) = 0
            /\ "number_of_episodes" \in DOMAIN r /\ r.number_of_episodes = 0
            /\ "number_of_seasons" \in DOMAIN r /\ r.number_of_seasons = 0
    IN  \/ "created_by" \notin DOMAIN r
        \/ "seasons" \notin DOMAIN r
        \/ "number_of_episodes" \notin DOMAIN r
        \/ "number_of_seasons" \notin DOMAIN r
        \/ looksLikeSearchOnly

\* mapTmdbToMovie: the reshaped upstream movie; ratings are carried in tenths
\* (84 for 8.4), vote_average and vote_count may be missing upstream
MovieRatings == {<<84, 1000>>, <<0, 0>>}

MoviePayloads ==
    {[movieId |-> id, title |-> "Inception", overview |-> "ov", releaseDate |-> "2010-07-16",
      posterPath |-> Null, genres |-> <<"Drama">>, rating |-> rc[1], ratingCount |-> rc[2],
      directorName |-> Null, cast |-> <<"Ann">>, castProfilePaths |-> <<"/p.jpg">>] :
        id \in MovieIds, rc \in MovieRatings}
    \cup {[movieId |-> id, title |-> "Inception", overview |-> "ov",
           releaseDate |-> "2010-07-16", posterPath |-> Null, genres |-> <<"Drama">>,
           directorName |-> Null, cast |-> <<"Ann">>, castProfilePaths |-> <<"/p.jpg">>] :
        id \in MovieIds}

\* buildSeriesPayloadFromSearch: no created_by, no counts, no seasons
SearchItems ==
    {[id |-> id, genre_ids |-> <<18>>, original_language |-> "en", overview |-> "ov",
      original_name |-> "N", poster_path |-> Null, first_air_date |-> "2020-01-01",
      name |-> "N", vote_average |-> 7, vote_count |-> 10] : id \in SeriesIds}

\* buildSeriesPayload of the upstream details of a series
DetailItems ==
    {[id |-> id, genre_ids |-> <<18>>, original_language |-> "en", overview |-> "ov",
      original_name |-> "N", created_by |-> <<[id |-> 7, name |-> "Cy"]>>,
      number_of_episodes |-> 10, number_of_seasons |-> 1, poster_path |-> Null,
      first_air_date |-> "2020-01-01", name |-> "N", vote_average |-> 7, vote_count |-> 10,
      seasons |-> <<s>>] : id \in SeriesIds, s \in {x \in SeasonObjects : x.id = 1}}

(***************************************************************************)
(* SpecRows: upserts into, and reads from, every table of the record store *)
(***************************************************************************)
MaxRowOps == 2

\* what first() or all() returned last, and for which statement
Observed == "sql" \in DOMAIN row

RowsDone == OpsDone < MaxRowOps /\ ~Observed

WritesOnly(writesOk) == [reads |-> TRUE, writes |-> writesOk]
ReadsOnly(readsOk) == [reads |-> readsOk, writes |-> TRUE]

InitRows ==
    /\ store = EmptyStore
    /\ clock \in {0, MaxTicks * TicksPerSecond}
    /\ last = NoOp
    /\ IdleKey
    /\ IdleFresh
    /\ IdleServe

UpsertMovieById ==
    /\ RowsDone
    /\ \E language \in Languages, payload \in MoviePayloads, writesOk \in BOOLEAN :
          LET now == NowSeconds(clock)
          IN  /\ store' = upsertMovieById(store, WritesOnly(writesOk), language, payload, now)
              /\ last' = [op |-> "movies_by_id", n |-> OpsDone + 1,
                          key |-> MovieIdKey(payload.movieId, language),
                          id |-> payload.movieId, before |-> store, now |-> now,
                          arg |-> BindMovie(payload, now) @@ [language |-> language],
                          written |-> writesOk]
    /\ UNCHANGED <<env, procs, clock, url, locale, key, row, table, verdict, response>>

UpsertMovieByChannel ==
    /\ RowsDone
    /\ \E channelId \in ChannelIds, language \in Languages, payload \in MoviePayloads,
          writesOk \in BOOLEAN :
          LET now == NowSeconds(clock)
          IN  /\ store' = upsertMovieByChannel(store, WritesOnly(writesOk), channelId,
                                               language, payload, now)
              /\ last' = [op |-> "movies_by_channel", n |-> OpsDone + 1,
                          key |-> MovieChannelKey(channelId, language),
                          id |-> payload.movieId, before |-> store, now |-> now,
                          arg |-> BindMovie(payload, now)
                                  @@ [channelId |-> channelId, language |-> language],
                          written |-> writesOk]
    /\ UNCHANGED <<env, procs, clock, url, locale, key, row, table, verdict, response>>

\* upsertSeries with a search item, or upsertSeries and upsertSeasons with the
\* payload of a detail fetch
UpsertSeries ==
    /\ RowsDone
    /\ \E language \in Languages, item \in SearchItems \cup DetailItems,
          writesOk \in BOOLEAN :
          LET now == NowSeconds(clock)
              be == WritesOnly(writesOk)
              st1 == upsertSeries(store, be, language, item, now)
          IN  /\ store' = IF "seasons" \in DOMAIN item
                          THEN RunList(st1, be, upsertSeasons(st1, item.id, language,
                                                              item.seasons, now))
                          ELSE st1
              /\ last' = [op |-> "series_by_id", n |-> OpsDone + 1,
                          key |-> SeriesIdKey(item.id, language),
                          id |-> item.id, before |-> store, now |-> now,
                          arg |-> BindSeries(language, item, now),
                          written |-> writesOk]
    /\ UNCHANGED <<env, procs, clock, url, locale, key, row, table, verdict, response>>

RowKeys ==
    {MovieIdKey(id, l) : id \in MovieIds, l \in Languages}
    \cup {MovieChannelKey(c, l) : c \in ChannelIds, l \in Languages}
    \cup {SeriesIdKey(id, l) : id \in SeriesIds, l \in Languages}

ListKeys ==
    {SeasonsKey(id, l) : id \in SeriesIds, l \in Languages}
    \cup {EpisodesKey(id, n, l) : id \in SeriesIds, n \in SeasonNumbers, l \in Languages}

\* the value under a key is replaced, from outside, by a text JSON.parse
\* rejects, set with the interval as expiry or with none
Corrupt ==
    /\ RowsDone
    /\ \E k \in RowKeys \cup ListKeys, ex \in {0, CACHE_INTERVAL_SECONDS} :
          /\ store' = (k :> [raw |-> "{", ex |-> ex]) @@ store
          /\ last' = [op |-> "corrupt", n |-> OpsDone + 1, key |-> k]
    /\ UNCHANGED <<env, procs, clock, url, locale, key, row, table, verdict, response>>

\* first() of one of the SELECT statements, and shouldRefresh of what it returned
ReadFirst ==
    /\ ~Observed
    /\ \E readsOk \in BOOLEAN, language \in Languages :
          LET be == ReadsOnly(readsOk)
          IN  \/ \E id \in MovieIds :
                    LET r == FirstRow(store, be, MovieIdKey(id, language))
                    IN  /\ row' = [sql |-> "movies_by_id", reads |-> readsOk,
                                   key |-> MovieIdKey(id, language), result |-> r]
                        /\ table' = "movie"
                        /\ verdict' = IF shouldRefreshMovie(r, clock) THEN "refresh"
                                      ELSE "serve"
              \/ \E c \in ChannelIds :
                    LET r == FirstRow(store, be, MovieChannelKey(c, language))
                    IN  /\ row' = [sql |-> "movies_by_channel", reads |-> readsOk,
                                   key |-> MovieChannelKey(c, language), result |-> r]
                        /\ table' = "movie"
                        /\ verdict' = IF shouldRefreshMovie(r, clock) THEN "refresh"
                                      ELSE "serve"
              \/ \E id \in SeriesIds :
                    LET r == FirstRow(store, be, SeriesIdKey(id, language))
                    IN  /\ row' = [sql |-> "series_by_id", reads |-> readsOk,
                                   key |-> SeriesIdKey(id, language), result |-> r]
                        /\ table' = "series"
                        /\ verdict' = IF shouldRefreshSeries(r, clock) THEN "refresh"
                                      ELSE "serve"
              \/ \E id \in SeriesIds, n \in SeasonNumbers, e \in EpisodeIds :
                    /\ row' = [sql |-> "series_episodes", reads |-> readsOk,
                               key |-> EpisodesKey(id, n, language),
                               result |-> FirstEpisode(store, be, id, language, n, e)]
                    /\ table' = "none"
                    /\ verdict' = NoVerdict
              \/ /\ row' = [sql |-> "unmatched", reads |-> readsOk, key |-> "",
                            result |-> FirstUnmatched]
                 /\ table' = "none"
                 /\ verdict' = NoVerdict
    /\ UNCHANGED <<env, procs, store, clock, last, url, locale, key, response>>

\* all() of one of the SELECT statements
ReadAll ==
    /\ ~Observed
    /\ \E readsOk \in BOOLEAN, language \in Languages, id \in SeriesIds,
          n \in SeasonNumbers :
          LET be == ReadsOnly(readsOk)
          IN  \/ row' = [sql |-> "all series_seasons", reads |-> readsOk,
                         key |-> SeasonsKey(id, language),
                         results |-> AllList(store, be, SeasonsKey(id, language))]
              \/ row' = [sql |-> "all series_episodes", reads |-> readsOk,
                         key |-> EpisodesKey(id, n, language),
                         results |-> AllList(store, be, EpisodesKey(id, n, language))]
              \/ row' = [sql |-> "all episode_guest_stars", reads |-> readsOk,
                         key |-> EpisodesKey(id, n, language),
                         results |-> AllGuestStars(store, be, id, language, n)]
    /\ UNCHANGED <<env, procs, store, clock, last, url, locale, key, table, verdict, response>>

InsertSeasonRow == RowsDone /\ InsertSeason
InsertEpisodeRow == RowsDone /\ InsertEpisode
InsertGuestStarRow == RowsDone /\ InsertGuestStar

NextRows ==
    \/ UpsertMovieById
    \/ UpsertMovieByChannel
    \/ UpsertSeries
    \/ InsertSeasonRow
    \/ InsertEpisodeRow
    \/ InsertGuestStarRow
    \/ Corrupt
    \/ ReadFirst
    \/ ReadAll

SpecRows == InitRows /\ [][NextRows]_vars

(***************************************************************************)
(* Claims about the scalar tables and the reads of the record store        *)
(***************************************************************************)
\* the movie row that first() handed to shouldRefresh
MovieRowRead ==
    /\ Observed
    /\ row.sql \in {"movies_by_id", "movies_by_channel"}
    /\ row.result # AbsentRow

ZeroRated(r) == r.rating = 0 /\ r.rating_count = 0

\* the instants at which a row is looked at again: at once, when it is
\* exactly CACHE_INTERVAL_SECONDS old, and a second later
LaterTicks ==
    {clock, clock + CACHE_INTERVAL_SECONDS * TicksPerSecond,
     clock + (CACHE_INTERVAL_SECONDS + 1) * TicksPerSecond}

\* the read follows the movie upsert that ran last, on the same key
ReadBackOfUpsert ==
    /\ MovieRowRead
    /\ last.op \in {"movies_by_id", "movies_by_channel"}
    /\ last.written
    /\ row.key = last.key

\* C11: shouldRefresh of a stored movie row is true whenever rating and
\* rating_count are both zero, at any age of the row; read back right after its
\* upsert, a movie upserted with rating 8.4 and rating_count 1000 is not stale,
\* and a movie upserted with rating 0 and rating_count 0 is stale.
C11_ZeroRatedMovieStale ==
    /\ MovieRowRead /\ ZeroRated(row.result) =>
          /\ verdict = "refresh"
          /\ \A t \in LaterTicks : shouldRefreshMovie(row.result, t)
    /\ ReadBackOfUpsert =>
          /\ (last.arg.rating = 84 /\ last.arg.rating_count = 1000) => verdict = "serve"
          /\ ZeroRated(last.arg) => verdict = "refresh"

\* a movie stored with 8.4 / 1000, upserted again with 0 / 0 and read back: stale
C11_Witness ==
    /\ ReadBackOfUpsert
    /\ ZeroRated(last.arg)
    /\ last.key \in DOMAIN last.before
    /\ last.before[last.key].v.rating = 84
    /\ last.now = last.before[last.key].v.updated_at
    /\ verdict = "refresh"

\* the series_by_id row that first() returned right after the series upsert
\* that ran last
SeriesRowReadBack ==
    /\ Observed
    /\ row.sql = "series_by_id"
    /\ row.result # AbsentRow
    /\ last.op = "series_by_id"
    /\ last.written
    /\ row.key = last.key

\* the bound parameters of a full detail upsert
FullDetail(p) ==
    /\ parseJsonArray(p.created_by) # <<>>
    /\ p.number_of_episodes # 0
    /\ p.number_of_seasons # 0

\* C12: the series_by_id row read back from the record store has
\* isExtendedDataMissing = true when it was written from a search result, and
\* isExtendedDataMissing = false when it was written by a full detail upsert
\* (upsertSeries, then upsertSeasons).
C12_DetailUpsertCompletesRecord ==
    SeriesRowReadBack =>
        /\ (last.arg.created_by = "[]" /\ last.arg.number_of_seasons = 0)
              => isExtendedDataMissing(row.result)
        /\ FullDetail(last.arg) /\ ListAt(store, SeasonsKey(last.id, last.arg.language)) # <<>>
              => ~isExtendedDataMissing(row.result)

\* the half of the claim that the code meets: a row written from a search
\* result is incomplete
C12_SearchRowIncomplete ==
    SeriesRowReadBack /\ last.arg.created_by = "[]" /\ last.arg.number_of_seasons = 0
        => isExtendedDataMissing(row.result)

\* what the code does instead: every row that first() returns lacks the seasons
\* property, so it is incomplete whatever was upserted
C12_StoredRowAlwaysIncomplete ==
    Observed /\ row.sql = "series_by_id" /\ row.result # AbsentRow
        => isExtendedDataMissing(row.result)

(***************************************************************************)
(* The request handlers: record store first, then the response cached      *)
(* under the key of the request URL, then the upstream API                 *)
(***************************************************************************)
RECURSIVE KeyText(_)
\* the key as the one string handed to client.get / client.set
KeyText(chars) == IF chars = <<>> THEN "" ELSE Head(chars) \o KeyText(Tail(chars))

LanguageParam ==
    [name |-> <<"l", "a", "n", "g", "u", "a", "g", "e">>, value |-> <<"e", "n">>]

\* GET /movies/27205?language=en
MovieRowsUrl ==
    [pathname |-> <<"/", "m", "o", "v", "i", "e", "s", "/", "2", "7", "2", "0", "5">>,
     searchParams |-> <<LanguageParam>>]

\* GET /v1/movie/27205?language=en
MovieUrl ==
    [pathname |-> <<"/", "v", "1", "/", "m", "o", "v", "i", "e", "/",
                    "2", "7", "2", "0", "5">>,
     searchParams |-> <<LanguageParam>>]

\* GET /v1/series/1?language=en
SeriesUrl ==
    [pathname |-> <<"/", "v", "1", "/", "s", "e", "r", "i", "e", "s", "/", "1">>,
     searchParams |-> <<LanguageParam>>]

\* GET /v1/series/1/season/1?language=en
SeasonUrl ==
    [pathname |-> SeriesUrl.pathname \o <<"/", "s", "e", "a", "s", "o", "n", "/", "1">>,
     searchParams |-> <<LanguageParam>>]

\* GET /v1/series/1/season/1/episode/{episodeNumber}?language=en
EpisodeUrl(episodeNumber) ==
    [pathname |-> SeasonUrl.pathname
                  \o <<"/", "e", "p", "i", "s", "o", "d", "e", "/", ToString(episodeNumber)>>,
     searchParams |-> <<LanguageParam>>]

\* const cacheKey = buildCacheKeyFromUrl(url), on a host of locale en
CacheKeyOf(u) == KeyText(buildCacheKeyFromUrl("en", u))

\* Number(env.TMDB_CACHE_SECONDS || env.REDIS_CACHE_TTL || CACHE_INTERVAL_SECONDS)
\* with the environment server.js builds when TMDB_CACHE_SECONDS is not set
ResponseTtl == CACHE_INTERVAL_SECONDS

\* const cached = await cacheGet(env, cacheKey) inside try/catch: whether the
\* handler finds a cached response
CachedResponseFound(st, be, k) == be.reads /\ k \in DOMAIN st /\ "v" \in DOMAIN st[k]

\* await cacheSet(env, cacheKey, payload, ttl) inside try/catch
\* a handler that never caches its response
CacheResponseNever(st, be, k, payload) == st

CacheResponse(st, be, k, payload) ==
    IF be.writes THEN cacheSet(st, k, payload, ResponseTtl) ELSE st

\* rowToMovie(row, null)
rowToMovie(r) ==
    [channelId |-> Null, movieId |-> r.tmdb_id,
     genres |-> parseJsonArray(OrElse(r, "genres", "")),
     rating |-> OrElse(r, "rating", 0), ratingCount |-> OrElse(r, "rating_count", 0),
     cast |-> parseJsonArray(OrElse(r, "cast_names", "")),
     castProfilePaths |-> parseJsonArray(OrElse(r, "cast_profile_paths", ""))]
    @@ Renamed(r, "title", "title") @@ Renamed(r, "overview", "overview")
    @@ Renamed(r, "release_date", "releaseDate") @@ Renamed(r, "poster_path", "posterPath")
    @@ Renamed(r, "director_name", "directorName") @@ Renamed(r, "updated_at", "updatedAt")

\* rowToSeries(row, seasons)
rowToSeries(r, seasons) ==
    Pick(r, {"original_language", "overview", "original_name", "poster_path",
             "first_air_date", "name"})
    @@ [id |-> r.tmdb_id,
        genre_ids |-> parseJsonArray(OrElse(r, "genre_ids", "")),
        created_by |-> parseJsonArray(OrElse(r, "created_by", "")),
        number_of_episodes |-> OrElse(r, "number_of_episodes", 0),
        number_of_seasons |-> OrElse(r, "number_of_seasons", 0),
        vote_average |-> OrElse(r, "vote_average", 0),
        vote_count |-> OrElse(r, "vote_count", 0),
        seasons |-> seasons]

\* readSeasons
readSeasons(st, be, seriesId, language) == AllList(st, be, SeasonsKey(seriesId, language))

\* getSeasonCacheMeta: its statement has no LIMIT 1, so first() matches no branch
getSeasonCacheMeta(st, be) ==
    IF FirstUnmatched = AbsentRow THEN [count |-> 0] ELSE FirstUnmatched

\* the guest objects readEpisode and readSeasonEpisodes build from the rows of all()
GuestViews(seriesId, guests) ==
    [i \in 1..Len(guests) |->
        Pick(guests[i], {"name", "original_name", "character", "profile_path"})
        @@ [series_id |-> seriesId, id |-> guests[i].guest_id,
            order |-> guests[i].order_index]]

\* the episode object readEpisode and readSeasonEpisodes build from a stored episode
EpisodeView(seriesId, ep, guests) ==
    Pick(ep, {"episode_number", "name", "overview", "still_path", "air_date"})
    @@ [series_id |-> seriesId, id |-> ep.id, episode_id |-> ep.id,
        vote_average |-> OrElse(ep, "vote_average", 0),
        vote_count |-> OrElse(ep, "vote_count", 0),
        guest_stars |-> guests]

\* readSeasonEpisodes: the guests are grouped by guest.episode_id
readSeasonEpisodes(st, be, seriesId, seasonNumber, language) ==
    LET episodes == AllList(st, be, EpisodesKey(seriesId, seasonNumber, language))
        guests == AllGuestStars(st, be, seriesId, language, seasonNumber)
    IN  [i \in 1..Len(episodes) |->
            EpisodeView(seriesId, episodes[i],
                        GuestViews(seriesId,
                                   SelectSeq2(guests, {j \in 1..Len(guests) :
                                                  guests[j].episode_id = episodes[i].id})))]

\* readEpisode: the guests are every row all() returns for the season
readEpisode(st, be, seriesId, seasonNumber, episodeNumber, language) ==
    LET episodeRow == FirstEpisode(st, be, seriesId, language, seasonNumber, episodeNumber)
    IN  IF episodeRow = AbsentRow THEN AbsentRow
        ELSE EpisodeView(seriesId, episodeRow,
                         GuestViews(seriesId,
                                    AllGuestStars(st, be, seriesId, language, seasonNumber)))
             @@ Pick(episodeRow, {"updated_at"})

\* buildEpisodePayload, and the payload map of handleSeriesSeason
buildEpisodePayload(seriesId, episode) ==
    Pick(episode, {"episode_number", "name", "overview", "still_path", "air_date"})
    @@ [series_id |-> seriesId, id |-> episode.id, episode_id |-> episode.id,
        vote_average |-> OrElse(episode, "vote_average", 0),
        vote_count |-> OrElse(episode, "vote_count", 0),
        guest_stars |->
            LET gs == OrElse(episode, "guest_stars", <<>>)
            IN  [i \in 1..Len(gs) |->
                    Pick(gs[i], {"name", "original_name", "character", "profile_path"})
                    @@ [series_id |-> seriesId, id |-> gs[i].id,
                        order |-> OrElse(gs[i], "order", Null)]]]

\* what tmdbFetch comes to: the decoded body, or a throw (the fetch rejects or
\* the status is not a success)
Failed == [ok |-> FALSE]
Fetched(data) == [ok |-> TRUE, data |-> data]

\* a handler that falls back to an answer of its own when the fetch failed
AnswerDespiteError(st, calls) ==
    [st |-> st, status |-> 200, source |-> "db", calls |-> calls,
     body |-> [error |-> "TMDB error"]]

\* what server.js answers when the handler throws
ErrorAnswer(st, calls) ==
    [st |-> st, status |-> 500, source |-> "error", calls |-> calls,
     body |-> [error |-> "TMDB error"]]

\* jsonResponse(body)
JsonAnswer(st, source, calls, body) ==
    [st |-> st, status |-> 200, source |-> source, calls |-> calls, body |-> body]

\* a handler whose upserts or cacheSet rethrow what the backend threw
AnswerUnlessWriteFailed(st, be, calls, body) ==
    IF be.writes THEN JsonAnswer(st, "upstream", calls, body) ELSE ErrorAnswer(st, calls)

\* the answer after a fetch: run() returns from its catch and the handler
\* catches what cacheSet throws, so the writes do not decide the answer
AnswerAfterWrites(st, be, calls, body) == JsonAnswer(st, "upstream", calls, body)

\* handleMovieById over the record store: GET /movies/{id}
handleMovieByIdRows(st, be, up, ticks, movieId, language) ==
    LET cachedRow == FirstRow(st, be, MovieIdKey(movieId, language))
        cacheKey == CacheKeyOf(MovieRowsUrl)
        calls == <<"movie/{id}", "movie/{id}/credits">>
    IN  IF cachedRow # AbsentRow /\ ~shouldRefreshMovie(cachedRow, ticks)
        THEN JsonAnswer(st, "db", <<>>, rowToMovie(cachedRow))
        ELSE IF CachedResponseFound(st, be, cacheKey)
        THEN JsonAnswer(st, "redis", <<>>, st[cacheKey].v)
        ELSE IF ~up.ok THEN ErrorAnswer(st, calls)
        ELSE LET st1 == upsertMovieById(st, be, language, up.data, NowSeconds(ticks))
             IN  AnswerAfterWrites(CacheResponse(st1, be, cacheKey, up.data), be, calls,
                            up.data)

\* handleMovieById of routes/movie.js: GET /v1/movie/{id}
handleMovieById(st, be, up) ==
    LET cacheKey == CacheKeyOf(MovieUrl)
        calls == <<"movie/{id}", "movie/{id}/credits">>
    IN  IF CachedResponseFound(st, be, cacheKey)
        THEN JsonAnswer(st, "redis", <<>>, st[cacheKey].v)
        ELSE IF ~up.ok THEN ErrorAnswer(st, calls)
        ELSE AnswerAfterWrites(CacheResponse(st, be, cacheKey, up.data), be, calls, up.data)

\* buildSeriesPayload(details, extractGenreIdsFromDetails(details))
buildSeriesPayload(details) ==
    Pick(details, {"original_language", "overview", "original_name", "number_of_episodes",
                   "number_of_seasons", "poster_path", "first_air_date", "name",
                   "vote_average", "vote_count"})
    @@ [id |-> details.id,
        genre_ids |-> LET gs == OrElse(details, "genres", <<>>)
                      IN  [i \in 1..Len(gs) |-> gs[i].id],
        created_by |-> OrElse(details, "created_by", <<>>),
        seasons |-> OrElse(details, "seasons", <<>>)]

\* handleSeriesById
handleSeriesById(st, be, up, ticks, seriesId, language) ==
    LET cachedRow == FirstRow(st, be, SeriesIdKey(seriesId, language))
        seasons == readSeasons(st, be, seriesId, language)
        cacheKey == CacheKeyOf(SeriesUrl)
        calls == <<"tv/{id}">>
    IN  IF /\ cachedRow # AbsentRow
           /\ ~shouldRefreshSeries(cachedRow, ticks)
           /\ ~isExtendedDataMissing(cachedRow)
           /\ Len(seasons) > 0
        THEN JsonAnswer(st, "db", <<>>, rowToSeries(cachedRow, seasons))
        ELSE IF CachedResponseFound(st, be, cacheKey)
        THEN JsonAnswer(st, "redis", <<>>, st[cacheKey].v)
        ELSE IF ~up.ok THEN ErrorAnswer(st, calls)
        ELSE LET payload == buildSeriesPayload(up.data)
                 now == NowSeconds(ticks)
                 st1 == upsertSeries(st, be, language, payload, now)
                 st2 == RunList(st1, be, upsertSeasons(st1, seriesId, language,
                                                       payload.seasons, now))
             IN  AnswerAfterWrites(CacheResponse(st2, be, cacheKey, payload), be, calls,
                            payload)

\* the payload handleSeriesSeason answers with after a fetch
SeasonPayload(seriesId, episodes) ==
    [i \in 1..Len(episodes) |->
        [f \in DOMAIN buildEpisodePayload(seriesId, episodes[i]) \ {"episode_id"} |->
            buildEpisodePayload(seriesId, episodes[i])[f]]]

\* handleSeriesSeason
handleSeriesSeason(st, be, up, ticks, seriesId, seasonNumber, language) ==
    LET cacheMeta == getSeasonCacheMeta(st, be)
        cached == readSeasonEpisodes(st, be, seriesId, seasonNumber, language)
        cacheKey == CacheKeyOf(SeasonUrl)
        calls == <<"tv/{id}/season/{n}">>
    IN  IF /\ cacheMeta.count > 0
           /\ NowSeconds(ticks) - cacheMeta.updated_at <= CACHE_INTERVAL_SECONDS
           /\ Len(cached) > 0
        THEN JsonAnswer(st, "db", <<>>, cached)
        ELSE IF CachedResponseFound(st, be, cacheKey)
        THEN JsonAnswer(st, "redis", <<>>, st[cacheKey].v)
        ELSE IF ~up.ok THEN ErrorAnswer(st, calls)
        ELSE LET episodes == OrElse(up.data, "episodes", <<>>)
                 st1 == RunList(st, be, upsertSeasonEpisodes(st, seriesId, seasonNumber,
                                             language, episodes, NowSeconds(ticks)))
             IN  AnswerAfterWrites(CacheResponse(st1, be, cacheKey, episodes), be, calls,
                            SeasonPayload(seriesId, episodes))

\* handleSeriesEpisode; an episode stored without updated_at has the age NaN,
\* which is not <= CACHE_INTERVAL_SECONDS
handleSeriesEpisode(st, be, up, ticks, seriesId, seasonNumber, episodeNumber, language) ==
    LET cached == readEpisode(st, be, seriesId, seasonNumber, episodeNumber, language)
        cacheKey == CacheKeyOf(EpisodeUrl(episodeNumber))
        calls == <<"tv/{id}/season/{n}/episode/{e}">>
    IN  IF /\ cached # AbsentRow
           /\ "updated_at" \in DOMAIN cached
           /\ NowSeconds(ticks) - cached.updated_at <= CACHE_INTERVAL_SECONDS
           /\ Len(cached.guest_stars) > 0
        THEN JsonAnswer(st, "db", <<>>,
                        [f \in DOMAIN cached \ {"updated_at"} |-> cached[f]])
        ELSE IF CachedResponseFound(st, be, cacheKey)
        THEN JsonAnswer(st, "redis", <<>>, st[cacheKey].v)
        ELSE IF ~up.ok THEN ErrorAnswer(st, calls)
        ELSE LET payload == buildEpisodePayload(seriesId, up.data)
                 st1 == RunList(st, be, upsertSeasonEpisodes(st, seriesId, seasonNumber,
                                             language, <<up.data>>, NowSeconds(ticks)))
             IN  AnswerAfterWrites(CacheResponse(st1, be, cacheKey, payload), be, calls,
                            payload)

(***************************************************************************)
(* SpecServe: requests to the by-id, season and episode handlers           *)
(***************************************************************************)
MaxRequests == 2

\* mapTmdbToMovie of routes/movie.js
MovieViews ==
    {[id |-> id, title |-> "Inception", overview |-> "ov", releaseDate |-> "2010-07-16",
      posterPath |-> Null, genres |-> <<[id |-> 18, name |-> "Drama"]>>,
      rating |-> rc[1], ratingCount |-> rc[2], directorName |-> Null,
      cast |-> <<[name |-> "Ann", order |-> 0, profile_path |-> "/p.jpg"]>>] :
        id \in MovieIds, rc \in MovieRatings}

\* the upstream details of a series: complete, or with nothing but id and name
SeriesDetails ==
    {[id |-> id, genres |-> <<[id |-> 18, name |-> "Drama"]>>, original_language |-> "en",
      overview |-> "ov", original_name |-> "N",
      created_by |-> <<[id |-> 7, name |-> "Cy"]>>, number_of_episodes |-> 10,
      number_of_seasons |-> 1, poster_path |-> Null, first_air_date |-> "2020-01-01",
      name |-> "N", vote_average |-> 7, vote_count |-> 10, seasons |-> <<s>>] :
        id \in SeriesIds, s \in {x \in SeasonObjects : x.id = 1 /\ "name" \in DOMAIN x}}
    \cup {[id |-> id, name |-> "N"] : id \in SeriesIds}

\* the upstream episodes the handlers are given: complete ones, with or
\* without a guest_stars list
ServeEpisodes ==
    {e \in EpisodePayloads :
        /\ "name" \in DOMAIN e
        /\ "guest_stars" \in DOMAIN e =>
              \A i \in 1..Len(e.guest_stars) : e.guest_stars[i].character = "c-a"}

\* the upstream body of a season: one episode, episode 1 with its guests and
\* episode 2 with none, no episode, or no episodes property
SeasonBodies ==
    {[episodes |-> b] : b \in {x \in Batches : \A i \in 1..Len(x) : x[i] \in ServeEpisodes}}
    \cup {[episodes |-> <<x, y>>] :
             x \in {e \in ServeEpisodes : e.id = 1 /\ "guest_stars" \in DOMAIN e},
             y \in {e \in ServeEpisodes : e.id = 2 /\ "guest_stars" \in DOMAIN e
                                              /\ e.guest_stars = <<>>}}
    \cup {[episodes |-> <<>>], [id |-> 1]}

RequestsDone == IF response = NoResponse THEN 0 ELSE response.n

\* the answer a of the handler becomes the response; the request, the state of
\* the backend and what the upstream did are kept with it
Respond(handler, req, be, up, a) ==
    /\ store' = a.st
    /\ response' = [n |-> RequestsDone + 1, handler |-> handler, req |-> req, be |-> be,
                    up |-> IF a.calls = <<>> THEN Failed ELSE up,
                    status |-> a.status, source |-> a.source, calls |-> a.calls,
                    body |-> a.body, before |-> store]
    /\ UNCHANGED <<env, procs, clock, last, url, locale, key, row, table, verdict>>

InitServe ==
    /\ store = EmptyStore
    /\ clock \in {0, MaxTicks * TicksPerSecond}
    /\ last = NoOp
    /\ IdleKey
    /\ IdleFresh
    /\ IdleServe

GetMovieRows ==
    /\ RequestsDone < MaxRequests
    /\ \E be \in Backends, id \in MovieIds, language \in Languages,
          up \in {Failed} \cup {Fetched(p) : p \in MoviePayloads} :
          Respond("movie rows", [id |-> id, language |-> language], be, up,
                  handleMovieByIdRows(store, be, up, clock, id, language))

GetMovie ==
    /\ RequestsDone < MaxRequests
    /\ \E be \in Backends, up \in {Failed} \cup {Fetched(p) : p \in MovieViews} :
          Respond("movie", [language |-> "en"], be, up, handleMovieById(store, be, up))

GetSeries ==
    /\ RequestsDone < MaxRequests
    /\ \E be \in Backends, id \in SeriesIds, language \in Languages,
          up \in {Failed} \cup {Fetched(d) : d \in SeriesDetails} :
          Respond("series", [id |-> id, language |-> language], be, up,
                  handleSeriesById(store, be, up, clock, id, language))

GetSeason ==
    /\ RequestsDone < MaxRequests
    /\ \E be \in Backends, id \in SeriesIds, n \in SeasonNumbers, language \in Languages,
          up \in {Failed} \cup {Fetched(d) : d \in SeasonBodies} :
          Respond("season", [id |-> id, season |-> n, language |-> language], be, up,
                  handleSeriesSeason(store, be, up, clock, id, n, language))

GetEpisode ==
    /\ RequestsDone < MaxRequests
    /\ \E be \in Backends, id \in SeriesIds, n \in SeasonNumbers, language \in Languages,
          e \in EpisodeIds :
          \E up \in {Failed} \cup {Fetched(d) : d \in {x \in ServeEpisodes : x.id = e}} :
          Respond("episode",
                  [id |-> id, season |-> n, episode |-> e, language |-> language], be, up,
                  handleSeriesEpisode(store, be, up, clock, id, n, e, language))

NextServe ==
    \/ GetMovieRows
    \/ GetMovie
    \/ GetSeries
    \/ GetSeason
    \/ GetEpisode

SpecServe == InitServe /\ [][NextServe]_vars

(***************************************************************************)
(* Claims about the request handlers                                       *)
(***************************************************************************)
Answered == response # NoResponse

\* the handler answered 200 and made no upstream call
AnsweredFromCache == Answered /\ response.status = 200 /\ response.calls = <<>>

\* the stored episode the request is about, as the store held it when the
\* request arrived
StoredEpisode ==
    LET episodes == ListAt(response.before,
                           EpisodesKey(response.req.id, response.req.season,
                                       response.req.language))
        idx == FindIndex(episodes, "episode_number", response.req.episode)
    IN  IF idx > 0 THEN episodes[idx] ELSE AbsentRow

\* updated_at of the stored element is not more than the interval in the past
FreshElement(e) ==
    "updated_at" \in DOMAIN e /\ NowSeconds(clock) - e.updated_at <= CACHE_INTERVAL_SECONDS

\* the record of the request, as the store held it when the request arrived,
\* is present, not stale, not incomplete, and has its children
RecordUsable ==
    LET st == response.before
        req == response.req
    IN  CASE response.handler = "movie rows" ->
                ~shouldRefreshMovie(FirstRow(st, Healthy, MovieIdKey(req.id, req.language)),
                                    clock)
          [] response.handler = "series" ->
                LET r == FirstRow(st, Healthy, SeriesIdKey(req.id, req.language))
                IN  /\ ~shouldRefreshSeries(r, clock)
                    /\ ~isExtendedDataMissing(r)
                    /\ ListAt(st, SeasonsKey(req.id, req.language)) # <<>>
          [] response.handler = "season" ->
                LET episodes == ListAt(st, EpisodesKey(req.id, req.season, req.language))
                IN  /\ episodes # <<>>
                    /\ \E i \in 1..Len(episodes) : FreshElement(episodes[i])
          [] response.handler = "episode" ->
                /\ StoredEpisode # AbsentRow
                /\ FreshElement(StoredEpisode)
                /\ OrElse(StoredEpisode, "guest_stars", <<>>) # <<>>
          [] OTHER -> TRUE

\* C13: a by-id, season or episode handler answers without an upstream fetch
\* only when the record-store record is present, not stale, not incomplete and
\* (season, episode) has a non-empty child list; otherwise it fetches from
\* upstream before it answers.
C13_CacheAnswerOnlyWhenRecordUsable ==
    AnsweredFromCache => RecordUsable

\* what the code guarantees instead: an answer without an upstream fetch comes
\* from the record store or from the response cached under the request's key
C13_CacheAnswerFromStoreOrResponseCache ==
    AnsweredFromCache =>
        \/ response.source = "db"
        \/ response.source = "redis" /\ response.be.reads


\* the stored episode of the request is fresh and its own guest list is not
\* empty
EpisodeUsable ==
    /\ StoredEpisode # AbsentRow
    /\ FreshElement(StoredEpisode)
    /\ OrElse(StoredEpisode, "guest_stars", <<>>) # <<>>

\* C14: handleSeriesEpisode answers without contacting upstream only if the
\* stored episode is not older than the interval and that episode's own stored
\* guest-star list is non-empty; an episode stored with an empty guest-star
\* list is refetched even when it is fresh.
C14_EpisodeAnswerNeedsOwnGuests ==
    (AnsweredFromCache /\ response.handler = "episode") => EpisodeUsable

\* the same, for the answers built from the record store alone
C14_EpisodeStoreAnswerNeedsOwnGuests ==
    (AnsweredFromCache /\ response.handler = "episode" /\ response.source = "db")
        => EpisodeUsable

\* what the record-store branch does test: the episode is present and fresh
\* and some episode of the season has a guest
C14_EpisodeStoreAnswerNeedsSeasonGuests ==
    (AnsweredFromCache /\ response.handler = "episode" /\ response.source = "db")
        => /\ StoredEpisode # AbsentRow
           /\ FreshElement(StoredEpisode)
           /\ AllGuestStars(response.before, Healthy, response.req.id,
                            response.req.language, response.req.season) # <<>>


\* the handler answered 200 with the body it built from an upstream fetch
AnsweredFromUpstream ==
    Answered /\ response.status = 200 /\ response.source = "upstream"

\* the next request is the request just answered, repeated, with the store
\* reading and writing
RepeatedRequest ==
    /\ response'.n = response.n + 1
    /\ response'.handler = response.handler
    /\ response'.req = response.req
    /\ response'.be = Healthy

\* C15: with the store available, after a movie-by-id, series-by-id, season or
\* episode request has completed successfully through an upstream fetch, the
\* identical request repeated before any expiry is answered without any
\* upstream call.
C15_RepeatAnsweredWithoutUpstream ==
    [][(AnsweredFromUpstream /\ response.be = Healthy /\ RepeatedRequest)
          => (response'.status = 200 /\ response'.calls = <<>>)]_vars

\* a second request answered without upstream whose store held, when it
\* arrived, the response the first request cached under the same URL
C15_Witness ==
    /\ AnsweredFromCache
    /\ response.n = 2
    /\ response.be = Healthy
    /\ response.handler = "season"
    /\ CacheKeyOf(SeasonUrl) \in DOMAIN response.before


(***************************************************************************)
(* Claims about the writes and reads of the record store                   *)
(***************************************************************************)
ScalarUpsertDone ==
    last.op \in {"movies_by_id", "movies_by_channel", "series_by_id"} /\ last.written

\* the store after the scalar INSERT just run is run once more with the same
\* bound parameters
ScalarRunAgain ==
    CASE last.op = "movies_by_id" -> RunInsertMovieById(store, last.arg)
      [] last.op = "movies_by_channel" -> RunInsertMovieByChannel(store, last.arg)
      [] last.op = "series_by_id" -> RunInsertSeries(store, last.arg)
      [] OTHER -> store

\* the list INSERT just run, run once more with the same bound parameters,
\* leaves the store as it is
ListRunAgainSame ==
    \A seriesId \in SeriesIds, language \in Languages, seasonNumber \in SeasonNumbers :
        /\ (last.op = "season" /\ last.key = SeasonsKey(seriesId, language))
              => upsertSeasons(store, seriesId, language, <<last.arg>>, last.now) = store
        /\ (last.op = "episode" /\ last.key = EpisodesKey(seriesId, seasonNumber, language))
              => RunInsertEpisode(store, BindEpisode(seriesId, seasonNumber, language,
                                                     last.arg, last.now)) = store
        /\ (last.op = "guest" /\ last.key = EpisodesKey(seriesId, seasonNumber, language))
              => RunInsertGuestStar(store,
                     BindGuestStar(seriesId, seasonNumber, language,
                                   [id |-> last.id, episode_number |-> last.id],
                                   last.arg, last.now)) = store

\* C16: running the same scalar upsert (movies_by_channel, movies_by_id or
\* series_by_id) twice with identical bound parameters leaves the stored value
\* equal to the value after one upsert, with the same expiry set again; the
\* same holds for upserting the same season, episode or guest element twice
\* into a list.
C16_UpsertIdempotent ==
    /\ ScalarUpsertDone => ScalarRunAgain = store
    /\ ListRunAgainSame

\* a season upserted a second time with the parameters of the first, after
\* which the list is the list it was
C16_Witness ==
    /\ last.op = "season"
    /\ last.n = 2
    /\ last.before # <<>>
    /\ FindIndex(last.before, "id", last.id) > 0
    /\ ListAt(store, last.key) = last.before

\* the same for a scalar row
C16_ScalarRepeated ==
    /\ ScalarUpsertDone
    /\ last.n = 2
    /\ last.key \in DOMAIN last.before
    /\ last.before = store


MovieColumns ==
    {"tmdb_id", "title", "overview", "release_date", "poster_path", "genres", "rating",
     "rating_count", "director_name", "cast_names", "cast_profile_paths", "updated_at"}

SeriesColumns ==
    {"tmdb_id", "genre_ids", "original_language", "overview", "original_name",
     "created_by", "number_of_episodes", "number_of_seasons", "poster_path",
     "first_air_date", "name", "vote_average", "vote_count", "updated_at"}

\* the last operation was an INSERT the backend accepted
WriteDone ==
    \/ ScalarUpsertDone
    \/ last.op \in {"season", "episode", "guest"}

\* the row under the key of the scalar INSERT just run has every column, each
\* with the value the INSERT bound, whatever the key held before
ScalarRowComplete ==
    LET v == store[last.key].v
    IN  /\ DOMAIN v = (IF last.op = "series_by_id" THEN SeriesColumns ELSE MovieColumns)
        /\ v.tmdb_id = last.id
        /\ v.updated_at = last.now
        /\ \A f \in (DOMAIN v \cap DOMAIN last.arg) \ {"genres", "cast_names",
                                                       "cast_profile_paths", "genre_ids",
                                                       "created_by"} :
              v[f] = last.arg[f]
        /\ last.op \in {"movies_by_id", "movies_by_channel"} =>
              /\ v.genres = last.arg.genres
              /\ v.cast_names = last.arg.cast_names
              /\ v.cast_profile_paths = last.arg.cast_profile_paths
        /\ last.op = "series_by_id" =>
              /\ v.genre_ids = last.arg.genre_ids
              /\ v.created_by = last.arg.created_by

\* the list under the key of the list INSERT just run holds the element written
\* and every element the list held before
ListComplete ==
    LET v == store[last.key].v
        idField == IF last.op = "season" THEN "id" ELSE "episode_id"
    IN  /\ FindIndex(v, idField, last.id) > 0
        /\ Len(v) >= Len(last.before)
        /\ \A i \in 1..Len(last.before) : v[i][idField] = last.before[i][idField]

\* C17: every write of the record store stores the complete value for its key
\* with the fixed expiry of 30 days (2592000 s), set again on each write; no
\* record-store write leaves a key without expiry or with a different expiry.
C17_WritesCompleteWithFixedExpiry ==
    /\ CACHE_INTERVAL_SECONDS = 2592000
    /\ \A k \in DOMAIN store : "v" \in DOMAIN store[k] => store[k].ex = CACHE_INTERVAL_SECONDS
    /\ WriteDone =>
          /\ last.key \in DOMAIN store
          /\ DOMAIN store[last.key] = {"v", "ex"}
          /\ store[last.key].ex = CACHE_INTERVAL_SECONDS
          /\ IF ScalarUpsertDone THEN ScalarRowComplete ELSE ListComplete

\* a row written over an entry that had no expiry
C17_Witness ==
    /\ ScalarUpsertDone
    /\ last.n = 2
    /\ last.key \in DOMAIN last.before
    /\ last.before[last.key].ex = 0
    /\ store[last.key].ex = CACHE_INTERVAL_SECONDS

\* an element upserted into a list the store already held
C17_ListRewritten ==
    /\ last.op = "episode"
    /\ last.n = 2
    /\ last.before # <<>>
    /\ store[last.key].ex = CACHE_INTERVAL_SECONDS


\* the read just observed found no key, a backend that threw, or a value
\* JSON.parse rejects
ReadMissed ==
    \/ ~row.reads
    \/ row.key \notin DOMAIN store
    \/ "v" \notin DOMAIN store[row.key]

ObservedFirst == Observed /\ "result" \in DOMAIN row
ObservedAll == Observed /\ "results" \in DOMAIN row

\* C18: record-store reads never raise: first() returns null and all() returns
\* an empty result list when the key is missing, when the backend read throws,
\* and when the stored value is not decodable JSON; the caller then proceeds as
\* on a miss (shouldRefresh of what first() returned is true).
C18_ReadsAnswerMissOnFailure ==
    /\ (ObservedFirst /\ ReadMissed) =>
          /\ row.result = AbsentRow
          /\ table \in {"movie", "series"} => verdict = "refresh"
    /\ (ObservedAll /\ ReadMissed) => row.results = <<>>

\* first() of a key whose value JSON.parse rejects
C18_Witness ==
    /\ ObservedFirst
    /\ row.sql = "movies_by_id"
    /\ row.reads
    /\ row.key \in DOMAIN store
    /\ "raw" \in DOMAIN store[row.key]
    /\ row.result = AbsentRow
    /\ verdict = "refresh"

\* first() of a row the store holds while the backend read throws
C18_FirstReadThrew ==
    /\ ObservedFirst
    /\ row.sql = "series_by_id"
    /\ ~row.reads
    /\ row.key \in DOMAIN store
    /\ "v" \in DOMAIN store[row.key]
    /\ row.result = AbsentRow

\* all() of a list the store holds while the backend read throws, and all() of
\* a key the store does not hold
C18_AllReadThrew ==
    /\ ObservedAll
    /\ ~row.reads
    /\ ListAt(store, row.key) # <<>>
    /\ row.results = <<>>

C18_AllKeyMissing ==
    /\ ObservedAll
    /\ row.reads
    /\ row.key \notin DOMAIN store
    /\ store # EmptyStore
    /\ row.results = <<>>

\* and a read that did not miss returns what the store holds
C18_FirstReadFound ==
    /\ ObservedFirst
    /\ ~ReadMissed
    /\ row.sql = "movies_by_id"
    /\ row.result = store[row.key].v


\* the handler went to the upstream API, and whether the fetch succeeded
FetchAttempted == Answered /\ response.calls # <<>>
FetchSucceeded == FetchAttempted /\ response.up.ok
FetchFailed == FetchAttempted /\ ~response.up.ok

\* the body each handler builds from the data it fetched
FreshBody ==
    LET data == response.up.data
        req == response.req
    IN  CASE response.handler = "series" -> buildSeriesPayload(data)
          [] response.handler = "season" ->
                SeasonPayload(req.id, OrElse(data, "episodes", <<>>))
          [] response.handler = "episode" -> buildEpisodePayload(req.id, data)
          [] OTHER -> data

\* C19: if every store write fails while a handler is refreshing from a
\* successful upstream fetch, the handler still returns a success response
\* built from the freshly fetched data; no store write failure turns the
\* response into an error.
C19_WriteFailureStillSucceeds ==
    (FetchSucceeded /\ ~response.be.writes) =>
        /\ response.status = 200
        /\ response.source = "upstream"
        /\ response.body = FreshBody
        /\ store = response.before

\* a series refreshed while the backend rejects every write: answered 200 with
\* the fetched series, nothing stored
C19_Witness ==
    /\ FetchSucceeded
    /\ ~response.be.writes
    /\ response.be.reads
    /\ response.handler = "series"
    /\ response.status = 200
    /\ response.body.id = response.req.id
    /\ SeriesIdKey(response.req.id, response.req.language) \notin DOMAIN store

\* the same on a second request, the first having stored its answer
C19_SecondRequestWriteFailed ==
    /\ FetchSucceeded
    /\ ~response.be.writes
    /\ response.n = 2
    /\ response.before # EmptyStore
    /\ response.status = 200

\* every call a handler made, it made once
CallsOnce ==
    \A i, j \in 1..Len(response.calls) :
        response.calls[i] = response.calls[j] => i = j

\* C20: when a handler attempts a refresh and the upstream fetch fails or
\* returns a non-success status, the failure goes to the caller as an error
\* response: the handler does not answer with stored data after the failed
\* refresh, and it does not retry the upstream call.
C20_FetchFailureIsError ==
    FetchFailed =>
        /\ response.status = 500
        /\ response.source = "error"
        /\ DOMAIN response.body = {"error"}
        /\ CallsOnce
        /\ store = response.before

\* a failed refresh of an episode the record store holds, fresh but with no
\* guest: the answer is the error, not the stored episode
C20_Witness ==
    /\ FetchFailed
    /\ response.handler = "episode"
    /\ response.n = 2
    /\ response.be.reads
    /\ StoredEpisode # AbsentRow
    /\ response.status = 500


(***************************************************************************)
(* SpecProxy: handleTmdbProxy, GET /3/*                                    *)
(***************************************************************************)
MaxProxyParams == 2
MaxProxyRequests == 2

\* the query parameters a client sends to the proxy
ProxyEntries == [name : CredentialNames \cup {<<"a">>}, value : {<<"1">>}]
ProxyUrls ==
    [pathname : Pathnames,
     searchParams : UNION {[1..n -> ProxyEntries] : n \in 0..MaxProxyParams}]

\* what fetch(targetUrl) resolves to, or Unreachable when it rejects
Unreachable == [status |-> 0]
ProxyAnswers ==
    {[status |-> 200, body |-> "{\"id\":1}", content_type |-> "application/json"],
     [status |-> 404, body |-> "{\"status_code\":34}", content_type |-> ""],
     Unreachable}

Envs == {ServerEnv, [ServerEnv EXCEPT !.TMDB_API_KEY = ""]}

\* a proxy that drops the parameter named api_key in lower case only
ProxyKeepExact(k) == k # S_api_key

\* if (key.toLowerCase() === "api_key") return;
ProxyKeepParam(k) == toLowerCase(k) # S_api_key

\* URLSearchParams.set: the first entry of that name takes the value and the
\* other entries of that name are removed; without one the entry is appended
SetParam(entries, name, value) ==
    IF \E i \in 1..Len(entries) : entries[i].name = name
    THEN LET first == CHOOSE i \in 1..Len(entries) :
                         /\ entries[i].name = name
                         /\ \A j \in 1..(i - 1) : entries[j].name # name
             kept == SelectSeq2(entries, {i \in 1..Len(entries) :
                                             entries[i].name # name \/ i = first})
         IN  [i \in 1..Len(kept) |->
                 IF kept[i].name = name THEN [name |-> name, value |-> value]
                 ELSE kept[i]]
    ELSE Append(entries, [name |-> name, value |-> value])

\* the query of targetUrl: the client's parameters without its api_key, then
\* api_key set to env.TMDB_API_KEY
TargetParams(e, u) ==
    SetParam(SelectSeq2(u.searchParams,
                        {i \in 1..Len(u.searchParams) :
                            ProxyKeepParam(u.searchParams[i].name)}),
             S_api_key, <<e.TMDB_API_KEY>>)

\* handleTmdbProxy; storeOps counts the calls of cacheGet and cacheSet
handleTmdbProxy(st, be, e, u, up) ==
    LET cacheKey == CacheKeyOf(u)
        found == CachedResponseFound(st, be, cacheKey) /\ "body" \in DOMAIN st[cacheKey].v
        cached == st[cacheKey].v
        target == TargetParams(e, u)
    IN  IF e.TMDB_API_KEY = ""
        THEN [st |-> st, status |-> 500, source |-> "config", calls |-> <<>>,
              body |-> "TMDB_API_KEY is missing", storeOps |-> 0]
        ELSE IF found
        THEN [st |-> st, status |-> cached.status, source |-> "redis", calls |-> <<>>,
              body |-> cached.body, storeOps |-> 1]
        ELSE IF up = Unreachable
        THEN [st |-> st, status |-> 500, source |-> "error", calls |-> <<target>>,
              body |-> [error |-> "fetch failed"], storeOps |-> 1]
        ELSE [st |-> IF be.writes
                     THEN cacheSet(st, cacheKey,
                                   [body |-> up.body, status |-> up.status,
                                    content_type |-> up.content_type], ResponseTtl)
                     ELSE st,
              status |-> up.status, source |-> "upstream", calls |-> <<target>>,
              body |-> up.body, storeOps |-> 2]

InitProxy ==
    /\ store = EmptyStore
    /\ clock = 0
    /\ last = NoOp
    /\ IdleKey
    /\ IdleFresh
    /\ response = NoResponse
    /\ env \in Envs
    /\ procs = NoProcs

GetProxy ==
    /\ RequestsDone < MaxProxyRequests
    /\ \E u \in ProxyUrls, be \in Backends, up \in ProxyAnswers :
          LET a == handleTmdbProxy(store, be, env, u, up)
          IN  /\ store' = a.st
              /\ response' = [n |-> RequestsDone + 1, handler |-> "proxy", req |-> u,
                              be |-> be, up |-> IF a.calls = <<>> THEN Unreachable ELSE up,
                              status |-> a.status, source |-> a.source, calls |-> a.calls,
                              body |-> a.body, storeOps |-> a.storeOps, before |-> store]
    /\ UNCHANGED <<env, procs, clock, last, url, locale, key, row, table, verdict>>

NextProxy == GetProxy

SpecProxy == InitProxy /\ [][NextProxy]_vars


(***************************************************************************)
(* Claims about the /3/* proxy                                             *)
(***************************************************************************)
\* the proxy received an answer from upstream that is not a success
UpstreamRefused ==
    /\ Answered
    /\ response.source = "upstream"
    /\ ~(response.up.status \in 200..299)

\* C21: a store entry is created or overwritten only after a successful
\* upstream response: in every handler, the /3/* proxy included, a non-success
\* upstream response leaves the store unchanged, so an upstream error is never
\* cached and replayed to later requests.
C21_RefusalLeavesStoreUnchanged ==
    UpstreamRefused => store = response.before

\* the same, seen from the later request: what the proxy replays from the
\* store is a success
C21_ReplayedAnswerIsSuccess ==
    (Answered /\ response.source = "redis") => response.status \in 200..299

\* what the proxy does: it stores the answer of upstream whatever its status,
\* and only a fetch that rejects leaves the store as it was
C21_ProxyStoresEveryAnswer ==
    /\ (Answered /\ response.source = "upstream" /\ response.be.writes) =>
          /\ CacheKeyOf(response.req) \in DOMAIN store
          /\ store[CacheKeyOf(response.req)].v.status = response.up.status
    /\ (Answered /\ response.source = "error") => store = response.before


\* the entries of the upstream request whose name is api_key in any letter case
CredentialsSent(target) ==
    {i \in 1..Len(target) : toLowerCase(target[i].name) = S_api_key}

\* the client's parameters that are no credential, in the order it sent them
PlainSent(u) ==
    SelectSeq2(u.searchParams,
               {i \in 1..Len(u.searchParams) :
                   toLowerCase(u.searchParams[i].name) # S_api_key})

\* C28: for every request to the /3/* proxy, the upstream request carries
\* exactly one api_key parameter and its value is the server's TMDB_API_KEY: an
\* api_key supplied by the client in any letter case is never forwarded; and
\* when TMDB_API_KEY is not configured the proxy answers 500 without contacting
\* upstream or the store.
C28_OnlyServerCredentialForwarded ==
    /\ (Answered /\ response.calls # <<>>) =>
          LET target == response.calls[1]
          IN  /\ Len(response.calls) = 1
              /\ env.TMDB_API_KEY # ""
              /\ Cardinality(CredentialsSent(target)) = 1
              /\ \A i \in CredentialsSent(target) :
                    /\ target[i].name = S_api_key
                    /\ target[i].value = <<env.TMDB_API_KEY>>
              /\ SelectSeq2(target, (1..Len(target)) \ CredentialsSent(target))
                    = PlainSent(response.req)
    /\ (Answered /\ env.TMDB_API_KEY = "") =>
          /\ response.status = 500
          /\ response.calls = <<>>
          /\ response.storeOps = 0
          /\ store = response.before

\* a request that brought credentials of its own, in two letter cases, and was
\* forwarded upstream
C28_Witness ==
    /\ Answered
    /\ response.calls # <<>>
    /\ \E i, j \in 1..Len(response.req.searchParams) :
          /\ response.req.searchParams[i].name = S_API_KEY
          /\ response.req.searchParams[j].name = S_api_key
    /\ Len(response.calls[1]) = 1

\* a request to a server without TMDB_API_KEY, its answer in the store already
C28_UnconfiguredWitness ==
    /\ Answered
    /\ env.TMDB_API_KEY = ""
    /\ response.status = 500
    /\ response.req.searchParams # <<>>


(***************************************************************************)
(* SpecBatch: one batch of an upstream payload, some of its elements       *)
(* malformed, is upserted while the backend rejects some of the writes     *)
(***************************************************************************)
MaxBatchLen == 3

\* null in an upstream array: an element without any property
NullElement == [null |-> TRUE]

\* guests of an upstream episode: two with a number as id, one without id
BatchGuests ==
    <<[id |-> 1, name |-> "G", original_name |-> "G", character |-> "c-a",
       profile_path |-> Null, order |-> 0],
      [name |-> "X", original_name |-> "X", character |-> "c-x", profile_path |-> Null,
       order |-> 1],
      NullElement,
      [id |-> 2, name |-> "H", original_name |-> "H", character |-> "c-h",
       profile_path |-> Null, order |-> 2]>>

\* the elements of an upstream episodes array: well-formed ones, null, and
\* one whose id is undefined
BatchEpisodes ==
    {[id |-> 1, episode_number |-> 1, name |-> "E", overview |-> "ov", still_path |-> Null,
      air_date |-> "2020-01-01", vote_average |-> 7, vote_count |-> 10,
      guest_stars |-> BatchGuests],
     [id |-> 1, episode_number |-> 1, name |-> "E again"],
     [id |-> 2, episode_number |-> 2, name |-> "F", guest_stars |-> <<BatchGuests[1]>>],
     NullElement,
     [episode_number |-> 1, name |-> "no id", guest_stars |-> <<BatchGuests[1]>>]}

\* the elements of an upstream seasons array
BatchSeasons ==
    {[id |-> 1, season_number |-> 1, name |-> "S", overview |-> "ov", poster_path |-> Null,
      air_date |-> "2020-01-01", episode_count |-> 10, vote_average |-> 7],
     [id |-> 2, season_number |-> 2, name |-> "T"],
     NullElement,
     [season_number |-> 3, name |-> "no id"]}

\* the backend while the statements of one element run: answering, or
\* rejecting every write
ElementBackends == {Healthy, [reads |-> TRUE, writes |-> FALSE]}

RECURSIVE upsertSeasonEpisodesUntilFailure(_, _, _, _, _, _, _)
\* a loop that ends at the first element it cannot upsert
upsertSeasonEpisodesUntilFailure(st, bes, seriesId, seasonNumber, language, episodes, now) ==
    IF episodes = <<>> THEN st
    ELSE IF ~HasNumberId(Head(episodes)) \/ ~Head(bes).writes THEN st
    ELSE LET st1 == upsertSeasonEpisodes(st, seriesId, seasonNumber, language,
                                         <<Head(episodes)>>, now)
         IN  IF st1 = st
             THEN upsertSeasonEpisodesUntilFailure(st, Tail(bes), seriesId, seasonNumber,
                                                   language, Tail(episodes), now)
             ELSE upsertSeasonEpisodesUntilFailure(st1, Tail(bes), seriesId, seasonNumber,
                                                   language, Tail(episodes), now)

RECURSIVE upsertSeasonEpisodesOver(_, _, _, _, _, _, _)
\* upsertSeasonEpisodes over a backend that is in the state bes[i] while the
\* statements of episodes[i] run: run() returns from its catch and the loop
\* goes on with the next element
upsertSeasonEpisodesOver(st, bes, seriesId, seasonNumber, language, episodes, now) ==
    IF episodes = <<>> THEN st
    ELSE LET st1 == RunList(st, Head(bes),
                            upsertSeasonEpisodes(st, seriesId, seasonNumber, language,
                                                 <<Head(episodes)>>, now))
         IN  \* an element that is skipped or whose statements fail leaves st
             IF st1 = st
             THEN upsertSeasonEpisodesOver(st, Tail(bes), seriesId, seasonNumber, language,
                                           Tail(episodes), now)
             ELSE upsertSeasonEpisodesOver(st1, Tail(bes), seriesId, seasonNumber, language,
                                           Tail(episodes), now)

RECURSIVE upsertSeasonsOver(_, _, _, _, _, _)
\* upsertSeasons over such a backend
upsertSeasonsOver(st, bes, seriesId, language, seasons, now) ==
    IF seasons = <<>> THEN st
    ELSE LET st1 == RunList(st, Head(bes),
                            upsertSeasons(st, seriesId, language, <<Head(seasons)>>, now))
         IN  IF st1 = st
             THEN upsertSeasonsOver(st, Tail(bes), seriesId, language, Tail(seasons), now)
             ELSE upsertSeasonsOver(st1, Tail(bes), seriesId, language, Tail(seasons), now)

BatchesOf(elements) == UNION {[1..n -> elements] : n \in 1..MaxBatchLen}

InitBatch ==
    /\ store = EmptyStore
    /\ clock = 0
    /\ last = NoOp
    /\ IdleKey
    /\ IdleFresh
    /\ IdleServe

UpsertEpisodeBatch ==
    /\ last = NoOp
    /\ \E seriesId \in SeriesIds, language \in Languages, seasonNumber \in SeasonNumbers,
          episodes \in BatchesOf(BatchEpisodes) :
          \E bes \in [1..Len(episodes) -> ElementBackends] :
              LET k == EpisodesKey(seriesId, seasonNumber, language)
              IN  /\ store' = upsertSeasonEpisodesOver(store, bes, seriesId, seasonNumber,
                                                       language, episodes, NowSeconds(clock))
                  /\ last' = [op |-> "episodes", n |-> 1, key |-> k, arg |-> episodes,
                              bes |-> bes, before |-> ListAt(store, k),
                              now |-> NowSeconds(clock)]
    /\ UNCHANGED <<env, procs, response, clock, url, locale, key, row, table, verdict>>

UpsertSeasonBatch ==
    /\ last = NoOp
    /\ \E seriesId \in SeriesIds, language \in Languages,
          seasons \in BatchesOf(BatchSeasons) :
          \E bes \in [1..Len(seasons) -> ElementBackends] :
              LET k == SeasonsKey(seriesId, language)
              IN  /\ store' = upsertSeasonsOver(store, bes, seriesId, language, seasons,
                                                NowSeconds(clock))
                  /\ last' = [op |-> "seasons", n |-> 1, key |-> k, arg |-> seasons,
                              bes |-> bes, before |-> ListAt(store, k),
                              now |-> NowSeconds(clock)]
    /\ UNCHANGED <<env, procs, response, clock, url, locale, key, row, table, verdict>>

NextBatch == UpsertEpisodeBatch \/ UpsertSeasonBatch

SpecBatch == InitBatch /\ [][NextBatch]_vars


(***************************************************************************)
(* Claims about batches with malformed elements                            *)
(***************************************************************************)
BatchDone == last.op \in {"episodes", "seasons"}

\* the positions of the batch whose element is well-formed and whose writes
\* the backend accepted
Upserted ==
    {i \in 1..Len(last.arg) : HasNumberId(last.arg[i]) /\ last.bes[i].writes}

\* the positions whose element is skipped or whose writes failed
NotUpserted == (1..Len(last.arg)) \ Upserted

BatchIdField == IF last.op = "seasons" THEN "id" ELSE "episode_id"

StoredList == ListAt(store, last.key)

StoredIds == {StoredList[j][BatchIdField] : j \in 1..Len(StoredList)}

\* the ids of the guests of the upserted elements with the given id that have
\* a number as id
GoodGuestIds(id) ==
    UNION {{last.arg[i].guest_stars[n].id :
               n \in {m \in 1..Len(last.arg[i].guest_stars) :
                         HasNumberId(last.arg[i].guest_stars[m])}} :
           i \in {u \in Upserted : /\ last.arg[u].id = id
                                   /\ "guest_stars" \in DOMAIN last.arg[u]}}

\* C22: in a batch passed to upsertSeasonEpisodes (or upsertSeasons), an
\* element that is null or whose id is not a number is skipped, and every other
\* element of the batch is still upserted; a guest star whose id is not a
\* number is skipped without affecting the other guests or the episode; a
\* failure on one element never prevents the upsert of the elements after it.
C22_MalformedElementsSkipped ==
    BatchDone =>
        /\ StoredIds = {last.arg[i].id : i \in Upserted}
        /\ Len(StoredList) = Cardinality(StoredIds)
        /\ \A i \in Upserted :
              (\A j \in Upserted : last.arg[j].id = last.arg[i].id => j <= i) =>
                  \E n \in 1..Len(StoredList) :
                      /\ StoredList[n][BatchIdField] = last.arg[i].id
                      /\ StoredList[n].name = last.arg[i].name
        /\ last.op = "episodes" =>
              \A n \in 1..Len(StoredList) :
                  {StoredList[n].guest_stars[g].id :
                      g \in 1..Len(StoredList[n].guest_stars)}
                      = GoodGuestIds(StoredList[n].episode_id)

\* a batch whose first element the backend rejected, whose second is null and
\* whose third is stored
C22_Witness ==
    /\ last.op = "episodes"
    /\ Len(last.arg) = 3
    /\ HasNumberId(last.arg[1])
    /\ ~last.bes[1].writes
    /\ last.arg[2] = NullElement
    /\ 3 \in Upserted
    /\ StoredIds = {last.arg[3].id}

\* an episode stored with its two well-formed guests, the guest without id and
\* the null guest left out, behind an element without id
C22_GuestSkipped ==
    /\ last.op = "episodes"
    /\ Len(last.arg) = 2
    /\ ~HasNumberId(last.arg[1])
    /\ 2 \in Upserted
    /\ "guest_stars" \in DOMAIN last.arg[2]
    /\ Len(last.arg[2].guest_stars) = 4
    /\ Len(StoredList) = 1
    /\ Len(StoredList[1].guest_stars) = 2

\* a seasons batch with a null element between two seasons that are stored
C22_SeasonSkipped ==
    /\ last.op = "seasons"
    /\ Len(last.arg) = 3
    /\ last.arg[2] = NullElement
    /\ Upserted = {1, 3}
    /\ Cardinality(StoredIds) = 2


(***************************************************************************)
(* SpecRace: two requests for the same natural key run concurrently; each  *)
(* await of the handler is one step                                        *)
(***************************************************************************)
RaceProcs == {1, 2}

RaceChannel == "ch1"
RaceLanguage == "en"
RaceMovieId == CHOOSE id \in MovieIds : TRUE
RaceSeriesId == CHOOSE id \in SeriesIds : \E d \in DetailItems : d.id = id

\* what upstream answers to the two kinds of request; it may answer the two
\* requests differently
RaceMoviePayloads == {p \in MoviePayloads : p.movieId = RaceMovieId}
RaceSeriesPayloads ==
    {[d EXCEPT !.vote_average = v] :
        d \in {x \in DetailItems : x.id = RaceSeriesId /\ "name" \in DOMAIN x.seasons[1]},
        v \in {7, 8}}

\* the store before the two requests: empty, or holding a record that is to
\* be refreshed (a movie without ratings, a series row)
RaceStores(kind) ==
    IF kind = "lookup"
    THEN {EmptyStore,
          upsertMovieByChannel(EmptyStore, Healthy, RaceChannel, RaceLanguage,
                               CHOOSE p \in RaceMoviePayloads : "rating" \notin DOMAIN p, 0)}
    ELSE {EmptyStore,
          upsertSeries(EmptyStore, Healthy, RaceLanguage,
                       CHOOSE d \in RaceSeriesPayloads : d.vote_average = 7, 0)}

\* the scalar key each write step of a handler sets
RaceKey(pc) ==
    CASE pc = "write channel" -> MovieChannelKey(RaceChannel, RaceLanguage)
      [] pc = "write id" -> MovieIdKey(RaceMovieId, RaceLanguage)
      [] pc = "write series" -> SeriesIdKey(RaceSeriesId, RaceLanguage)

RaceScalarKeys == {RaceKey(pc) : pc \in {"write channel", "write id", "write series"}}

NoWrites == [k \in RaceScalarKeys |-> 0]

\* number of scalar writes done so far
WritesDone == IF last.op = "none" THEN 0 ELSE last.n

InitRace ==
    /\ clock = 0
    /\ last = NoOp
    /\ IdleKey
    /\ IdleFresh
    /\ response = NoResponse
    /\ env = ServerEnv
    /\ \E kind \in {"lookup", "series"} :
          /\ store \in RaceStores(kind)
          /\ procs = [p \in RaceProcs |->
                         [pc |-> "start", kind |-> kind, found |-> FALSE, at |-> NoWrites]]

RaceUnchanged == UNCHANGED <<env, response, clock, url, locale, key, row, table, verdict>>

\* first() of the record, and the decision to refresh
RaceRead(p) ==
    /\ procs[p].pc = "start"
    /\ LET r == IF procs[p].kind = "lookup"
                THEN FirstRow(store, Healthy, MovieChannelKey(RaceChannel, RaceLanguage))
                ELSE FirstRow(store, Healthy, SeriesIdKey(RaceSeriesId, RaceLanguage))
           usable == IF procs[p].kind = "lookup"
                     THEN ~shouldRefreshMovie(r, clock)
                     ELSE ~shouldRefreshSeries(r, clock) /\ ~isExtendedDataMissing(r)
       IN  procs' = [procs EXCEPT ![p].pc = IF usable THEN "done"
                                            ELSE IF procs[p].kind = "lookup" THEN "fetch"
                                            ELSE "cache",
                                  ![p].found = r # AbsentRow]
    /\ UNCHANGED <<store, last>>
    /\ RaceUnchanged

\* cacheGet of the response cached under the request URL (series)
RaceCacheGet(p) ==
    /\ procs[p].pc = "cache"
    /\ procs' = [procs EXCEPT ![p].pc =
                    IF CachedResponseFound(store, Healthy, CacheKeyOf(SeriesUrl))
                    THEN "done" ELSE "fetch"]
    /\ UNCHANGED <<store, last>>
    /\ RaceUnchanged

\* the upstream fetch returns
RaceFetch(p) ==
    /\ procs[p].pc = "fetch"
    /\ \E payload \in (IF procs[p].kind = "lookup" THEN RaceMoviePayloads
                       ELSE RaceSeriesPayloads) :
          procs' = [procs EXCEPT ![p] = [payload |-> payload] @@
                       [procs[p] EXCEPT !.pc = IF procs[p].kind = "lookup"
                                               THEN "write channel" ELSE "write series"]]
    /\ UNCHANGED <<store, last>>
    /\ RaceUnchanged

\* one run() of a scalar INSERT
RaceWriteScalar(p) ==
    /\ procs[p].pc \in {"write channel", "write id", "write series"}
    /\ LET pc == procs[p].pc
           payload == procs[p].payload
           now == NowSeconds(clock)
       IN  /\ store' =
                 CASE pc = "write channel" ->
                        upsertMovieByChannel(store, Healthy, RaceChannel, RaceLanguage,
                                             payload, now)
                   [] pc = "write id" ->
                        upsertMovieById(store, Healthy, RaceLanguage, payload, now)
                   [] pc = "write series" ->
                        upsertSeries(store, Healthy, RaceLanguage, payload, now)
           /\ last' = [op |-> "write", n |-> WritesDone + 1, key |-> RaceKey(pc), proc |-> p]
           /\ procs' = [procs EXCEPT
                           ![p].pc = CASE pc = "write channel" -> "write id"
                                       [] pc = "write id" -> "done"
                                       [] pc = "write series" -> "write seasons",
                           ![p].at = [procs[p].at EXCEPT ![RaceKey(pc)] = WritesDone + 1]]
    /\ RaceUnchanged

\* upsertSeasons of the fetched series, then cacheSet of the response
RaceWriteSeasons(p) ==
    /\ procs[p].pc = "write seasons"
    /\ store' = upsertSeasons(store, RaceSeriesId, RaceLanguage, procs[p].payload.seasons,
                              NowSeconds(clock))
    /\ procs' = [procs EXCEPT ![p].pc = "write cache"]
    /\ UNCHANGED last
    /\ RaceUnchanged

RaceCacheSet(p) ==
    /\ procs[p].pc = "write cache"
    /\ store' = CacheResponse(store, Healthy, CacheKeyOf(SeriesUrl), procs[p].payload)
    /\ procs' = [procs EXCEPT ![p].pc = "done"]
    /\ UNCHANGED last
    /\ RaceUnchanged

NextRace ==
    \E p \in RaceProcs :
        \/ RaceRead(p)
        \/ RaceCacheGet(p)
        \/ RaceFetch(p)
        \/ RaceWriteScalar(p)
        \/ RaceWriteSeasons(p)
        \/ RaceCacheSet(p)

SpecRace == InitRace /\ [][NextRace]_vars


(***************************************************************************)
(* Claims about concurrent refreshes                                       *)
(***************************************************************************)
RaceDone == \A p \in RaceProcs : procs[p].pc = "done"

Writers(k) == {p \in RaceProcs : procs[p].at[k] > 0}

\* the request whose write of the key happened last
LastWriter(k) ==
    CHOOSE p \in Writers(k) : \A q \in Writers(k) : procs[q].at[k] <= procs[p].at[k]

\* the complete record one request writes for the key from what it fetched
OwnRecord(p, k) ==
    LET payload == procs[p].payload
        now == NowSeconds(clock)
        alone == CASE k = MovieChannelKey(RaceChannel, RaceLanguage) ->
                        upsertMovieByChannel(EmptyStore, Healthy, RaceChannel, RaceLanguage,
                                             payload, now)
                   [] k = MovieIdKey(RaceMovieId, RaceLanguage) ->
                        upsertMovieById(EmptyStore, Healthy, RaceLanguage, payload, now)
                   [] k = SeriesIdKey(RaceSeriesId, RaceLanguage) ->
                        upsertSeries(EmptyStore, Healthy, RaceLanguage, payload, now)
    IN  alone[k].v

\* C23: under two concurrent refreshes of one scalar natural key, at every
\* moment after a write and in particular when both requests are done, the
\* stored record is the complete record written by the request whose write
\* of that key happened last, never a mixture of the two writes.
C23_LastWriterWins ==
    procs # NoProcs =>
        \A k \in RaceScalarKeys :
            Writers(k) # {} => FirstRow(store, Healthy, k) = OwnRecord(LastWriter(k), k)

\* both requests read the stale record, both fetched, the fetched records
\* differ, and the two keys of the movie end up written last by different
\* requests
C23_Witness ==
    /\ procs # NoProcs
    /\ RaceDone
    /\ \A p \in RaceProcs : procs[p].found /\ "payload" \in DOMAIN procs[p]
    /\ procs[1].payload # procs[2].payload
    /\ LET ck == MovieChannelKey(RaceChannel, RaceLanguage)
           ik == MovieIdKey(RaceMovieId, RaceLanguage)
       IN  /\ Writers(ck) = RaceProcs
           /\ Writers(ik) = RaceProcs
           /\ LastWriter(ck) # LastWriter(ik)
           /\ FirstRow(store, Healthy, ck) = OwnRecord(LastWriter(ck), ck)
           /\ FirstRow(store, Healthy, ck) # OwnRecord(LastWriter(ik), ck)

\* the same for two refreshes of one series
C23_SeriesRaced ==
    /\ procs # NoProcs
    /\ RaceDone
    /\ \A p \in RaceProcs : procs[p].found /\ "payload" \in DOMAIN procs[p]
    /\ LET k == SeriesIdKey(RaceSeriesId, RaceLanguage)
       IN  /\ Writers(k) = RaceProcs
           /\ OwnRecord(1, k) # OwnRecord(2, k)
           /\ FirstRow(store, Healthy, k) = OwnRecord(LastWriter(k), k)


(***************************************************************************)
(* SpecWait: requests waiting for an upstream that may answer, fail or     *)
(* never answer.  The handler's own continuations and its timers are       *)
(* scheduled by the event loop (weak fairness); nothing makes the upstream *)
(* answer.                                                                 *)
(***************************************************************************)
WaitProcs == {1, 2}
MaxWaitTicks == 4
MsPerTick == 4000

REDIRECT_RESOLVE_MAX_TIME_MS == 8000

\* the fetching functions: tmdbFetch of routes/movie.js, tmdbFetch of
\* routes/series.js, resolveFinalUpstreamUrl of routes/stream.js
WaitKinds == {"movie", "series", "stream"}

\* whether the fetch of this kind is given an abort signal and a timer
HasAbortTimer(kind) == kind = "stream"

\* what a fetch settles with: a response status, or a thrown network error
FetchThrew == 0
FetchOutcomes == {200, 404, 405, FetchThrew}

InitWait ==
    /\ clock = 0
    /\ last = NoOp
    /\ IdleKey
    /\ IdleFresh
    /\ store = EmptyStore
    /\ response = NoResponse
    /\ env \in Envs
    /\ procs \in [WaitProcs -> [pc : {"start"}, kind : WaitKinds]]

WaitUnchanged == UNCHANGED <<env, response, store, last, url, locale, key, row, table, verdict>>

WaitTick ==
    /\ clock < MaxWaitTicks
    /\ clock' = clock + 1
    /\ UNCHANGED procs
    /\ WaitUnchanged

\* the handler reaches its fetch: tmdbFetch throws without the credential,
\* otherwise the request is sent; resolveFinalUpstreamUrl arms its timer
BeginFetch(p) ==
    /\ procs[p].pc = "start"
    /\ HasAbortTimer(procs[p].kind) =>
          clock * MsPerTick + REDIRECT_RESOLVE_MAX_TIME_MS <= MaxWaitTicks * MsPerTick
    /\ procs' = [procs EXCEPT ![p] =
                    IF ~HasAbortTimer(procs[p].kind) /\ env.TMDB_API_KEY = ""
                    THEN [pc |-> "done", kind |-> procs[p].kind, status |-> 500]
                    ELSE [pc |-> "fetch", kind |-> procs[p].kind, method |-> "first",
                          started |-> clock]]
    /\ UNCHANGED clock
    /\ WaitUnchanged

\* the upstream answers the request in flight, or the connection fails
UpstreamSettles(p) ==
    /\ procs[p].pc = "fetch"
    /\ \E outcome \in FetchOutcomes :
          procs' = [procs EXCEPT ![p] = [outcome |-> outcome] @@ [procs[p] EXCEPT !.pc = "settled"]]
    /\ UNCHANGED clock
    /\ WaitUnchanged

\* setTimeout(() => controller.abort(), REDIRECT_RESOLVE_MAX_TIME_MS): the
\* fetch in flight rejects
AbortTimerFires(p) ==
    /\ procs[p].pc = "fetch"
    /\ HasAbortTimer(procs[p].kind)
    /\ (clock - procs[p].started) * MsPerTick >= REDIRECT_RESOLVE_MAX_TIME_MS
    /\ procs' = [procs EXCEPT ![p] =
                    [outcome |-> FetchThrew, aborted |-> TRUE]
                    @@ [procs[p] EXCEPT !.pc = "settled"]]
    /\ UNCHANGED clock
    /\ WaitUnchanged

\* the code after the await: tmdbFetch returns the body or throws (the
\* server answers 500); resolveFinalUpstreamUrl repeats a refused HEAD as a
\* GET, returns the final URL, or null (502) when the fetch threw
ContinueAfterFetch(p) ==
    /\ procs[p].pc = "settled"
    /\ LET me == procs[p]
           done(status) == [pc |-> "done", kind |-> me.kind, status |-> status]
       IN  procs' = [procs EXCEPT ![p] =
                        IF HasAbortTimer(me.kind)
                        THEN IF me.outcome = FetchThrew THEN done(502)
                             ELSE IF me.method = "first" /\ me.outcome \in {405, 403}
                             THEN [pc |-> "fetch", kind |-> me.kind, method |-> "second",
                                   started |-> me.started]
                             ELSE done(200)
                        ELSE IF me.outcome = 200 THEN done(200) ELSE done(500)]
    /\ UNCHANGED clock
    /\ WaitUnchanged

NextWait ==
    \/ WaitTick
    \/ \E p \in WaitProcs :
          \/ BeginFetch(p)
          \/ UpstreamSettles(p)
          \/ AbortTimerFires(p)
          \/ ContinueAfterFetch(p)

SpecWait ==
    /\ InitWait
    /\ [][NextWait]_vars
    /\ WF_vars(WaitTick)
    /\ \A p \in WaitProcs :
          /\ WF_vars(BeginFetch(p))
          /\ WF_vars(AbortTimerFires(p))
          /\ WF_vars(ContinueAfterFetch(p))

(***************************************************************************)
(* Claims about waiting for the upstream                                   *)
(***************************************************************************)
Fetching(p) == procs[p].pc = "fetch"
Completed(p) == procs[p].pc = "done"

\* C24: every upstream metadata fetch is bounded by a timeout, so a handler
\* whose fetch is in flight eventually completes even if the upstream
\* never answers.
C24_FetchingHandlerCompletes ==
    \A p \in WaitProcs :
        (Fetching(p) /\ ~HasAbortTimer(procs[p].kind)) ~> Completed(p)

\* the redirect resolution of the stream endpoint, which has the timer
StreamResolutionCompletes ==
    \A p \in WaitProcs :
        (Fetching(p) /\ HasAbortTimer(procs[p].kind)) ~> Completed(p)

\* a resolution ended by its timer
StreamResolutionAborted ==
    /\ procs # NoProcs
    /\ \E p \in WaitProcs :
          /\ Completed(p)
          /\ HasAbortTimer(procs[p].kind)
          /\ procs[p].status = 502


(***************************************************************************)
(* SpecServer: the express middleware of server.js; a pathname is the      *)
(* sequence of its segments ("/v1/movie/7" is <<"v1", "movie", "7">>,      *)
(* a trailing slash gives a last empty segment)                            *)
(***************************************************************************)
MaxServerRequests == 2

Methods == {"GET", "OPTIONS", "POST"}

DigitSegments == {"1", "27205"}

\* \d+
IsDigits(seg) == seg \in DigitSegments

ServerPaths ==
    {<<"v1", "health">>, <<"v1", "search">>, <<"v1", "movie", "lookup">>, <<"v1", "movie">>,
     <<"v1", "movie", "27205">>, <<"v1", "movie", "27205", "1">>, <<"v1", "movie", "abc">>,
     <<"v1", "stream-url">>, <<"v1", "series", "search">>, <<"v1", "series">>,
     <<"v1", "series", "">>, <<"v1", "series", "1", "season", "1", "episode", "1">>,
     <<"v1", "series", "1", "season", "1">>, <<"v1", "series", "1">>,
     <<"3", "movie", "27205">>, <<"v2", "movie">>}

\* pathname.startsWith(prefix + "/")
StartsWithDir(path, prefix) ==
    /\ Len(path) > Len(prefix)
    /\ SubSeq(path, 1, Len(prefix)) = prefix

\* pathname.match(/^\/v1\/movie\/\d+\/\d+$/)
MatchesMovieById(path) ==
    /\ Len(path) = 4
    /\ SubSeq(path, 1, 2) = <<"v1", "movie">>
    /\ IsDigits(path[3])
    /\ IsDigits(path[4])

\* pathname.match(/^\/v1\/series\/\d+\/season\/\d+\/episode\/\d+$/)
MatchesEpisode(path) ==
    /\ Len(path) = 7
    /\ SubSeq(path, 1, 2) = <<"v1", "series">>
    /\ IsDigits(path[3])
    /\ path[4] = "season"
    /\ IsDigits(path[5])
    /\ path[6] = "episode"
    /\ IsDigits(path[7])

\* pathname.match(/^\/v1\/series\/\d+\/season\/\d+$/)
MatchesSeason(path) ==
    /\ Len(path) = 5
    /\ SubSeq(path, 1, 2) = <<"v1", "series">>
    /\ IsDigits(path[3])
    /\ path[4] = "season"
    /\ IsDigits(path[5])

\* the if / else-if chain over url.pathname, in its order
RouteOf(path) ==
    CASE path = <<"v1", "health">> -> "health"
      [] path = <<"v1", "search">> -> "handleSearch"
      [] path = <<"v1", "movie", "lookup">> -> "handleMovieLookup"
      [] path = <<"v1", "movie">> -> "handleMovieLookup"
      [] OTHER ->
         IF StartsWithDir(path, <<"v1", "movie">>) THEN "handleMovieLookup"
         ELSE IF MatchesMovieById(path) THEN "handleMovieById"
         ELSE IF path = <<"v1", "stream-url">> THEN "handleStreamUrl"
         ELSE IF path = <<"v1", "series", "search">> THEN "handleSeriesSearch"
         ELSE IF path = <<"v1", "series">> \/ path = <<"v1", "series", "">>
         THEN "handleSeriesSearch"
         ELSE IF MatchesEpisode(path) THEN "handleSeriesEpisode"
         ELSE IF MatchesSeason(path) THEN "handleSeriesSeason"
         ELSE IF StartsWithDir(path, <<"v1", "series">>) THEN "handleSeriesById"
         ELSE IF StartsWithDir(path, <<"3">>) THEN "handleTmdbProxy"
         ELSE "not found"

corsHeaders ==
    [h \in {"access-control-allow-origin", "access-control-allow-methods",
            "access-control-allow-headers"} |->
        CASE h = "access-control-allow-origin" -> "*"
          [] h = "access-control-allow-methods" -> "GET,OPTIONS"
          [] h = "access-control-allow-headers" -> "content-type,authorization"]

JsonHeaders == [h \in {"content-type"} |-> "application/json; charset=utf-8"]

\* jsonResponse / errorResponse: a status, the body's error message ("" for
\* a data body) and the content-type header
Returned(status, error) == [threw |-> FALSE, status |-> status, error |-> error,
                            headers |-> JsonHeaders]
Threw(message) == [threw |-> TRUE, error |-> message]

\* headers.set of every CORS header over the response's own headers
withCors(resp) == [resp EXCEPT !.headers = corsHeaders @@ resp.headers]

\* what upstream does when a handler fetches from it
Upstreams == {"ok", "empty", "fails"}

\* the query of the request: whether channelId and title are given
Queries == [channelId : BOOLEAN, title : BOOLEAN]

\* what the route's handler returns or throws
HandlerResult(route, path, query, upstream) ==
    LET fetched(emptyStatus, emptyError) ==
            CASE upstream = "fails" -> Threw("TMDB error")
              [] upstream = "empty" -> Returned(emptyStatus, emptyError)
              [] OTHER -> Returned(200, "")
    IN  CASE route = "health" -> Returned(200, "")
          [] route = "not found" -> Returned(404, "not found")
          [] route = "handleMovieLookup" ->
               IF ~query.channelId \/ ~query.title
               THEN Returned(400, "channelId and title are required")
               ELSE fetched(404, "TMDB movie not found")
          [] route = "handleMovieById" -> fetched(200, "")
          [] route = "handleStreamUrl" -> Returned(400, "url is required")
          [] route = "handleSeriesSearch" -> fetched(404, "TMDB series not found")
          [] OTHER -> fetched(200, "")

\* app.use(async (req, res) => ...): what the server answers
Serve(method, path, query, upstream) ==
    IF method = "OPTIONS"
    THEN [status |-> 204, error |-> "", headers |-> corsHeaders, route |-> "preflight"]
    ELSE IF method # "GET"
    THEN [route |-> "method"]
         @@ Pick(withCors(Returned(405, "method not allowed")), {"status", "error", "headers"})
    ELSE LET route == RouteOf(path)
             result == HandlerResult(route, path, query, upstream)
         IN  IF result.threw
             THEN [status |-> 500, error |-> result.error, headers |-> JsonHeaders,
                   route |-> route]
             ELSE [route |-> route] @@ Pick(withCors(result), {"status", "error", "headers"})

InitServer ==
    /\ IdleStore
    /\ IdleKey
    /\ IdleFresh
    /\ IdleServe

HandleRequest ==
    /\ (IF response = NoResponse THEN 0 ELSE response.n) < MaxServerRequests
    /\ \E method \in Methods, path \in ServerPaths, query \in Queries, upstream \in Upstreams :
          response' = [n |-> (IF response = NoResponse THEN 0 ELSE response.n) + 1,
                       method |-> method, pathname |-> path, query |-> query,
                       upstream |-> upstream]
                      @@ Serve(method, path, query, upstream)
    /\ UNCHANGED <<env, procs, url, locale, key, store, clock, last, row, table, verdict>>

NextServer == HandleRequest

SpecServer == InitServer /\ [][NextServer]_vars

(***************************************************************************)
(* Claims about routing and response headers                               *)
(***************************************************************************)
\* a GET of /v1/movie/{tmdbId} without channelId and title
MovieByIdRequest ==
    /\ Answered
    /\ response.method = "GET"
    /\ Len(response.pathname) = 3
    /\ SubSeq(response.pathname, 1, 2) = <<"v1", "movie">>
    /\ IsDigits(response.pathname[3])
    /\ ~response.query.channelId
    /\ ~response.query.title

\* C25: a GET of /v1/movie/{tmdbId} with a numeric id and no channelId or
\* title is dispatched to the movie-by-id handler and is not answered 400
\* "channelId and title are required" by the lookup handler.
C25_MovieByIdDispatched ==
    MovieByIdRequest =>
        /\ response.route = "handleMovieById"
        /\ ~(response.status = 400 /\ response.error = "channelId and title are required")

\* what the server does with such a request
C25_MovieByIdAnsweredByLookup ==
    MovieByIdRequest =>
        /\ response.route = "handleMovieLookup"
        /\ response.status = 400
        /\ response.error = "channelId and title are required"

\* the by-id handler is behind the lookup prefix for every pathname
C25_MovieByIdNeverDispatched ==
    Answered => response.route # "handleMovieById"

HasCors(headers) ==
    \A h \in DOMAIN corsHeaders : h \in DOMAIN headers /\ headers[h] = corsHeaders[h]

\* C26: every response to a GET request carries the CORS headers, also
\* when the route handler throws and the server answers 500.
C26_GetResponsesCarryCors ==
    (Answered /\ response.method = "GET") => HasCors(response.headers)

\* every response whose handler returned carries them
C26_ReturnedResponsesCarryCors ==
    (Answered /\ ~(response.method = "GET" /\ response.upstream = "fails"
                   /\ response.status = 500))
        => HasCors(response.headers)


(***************************************************************************)
(* SpecStream: handleStreamUrl of routes/stream.js                         *)
(***************************************************************************)
DEFAULT_TTL_SECONDS == 300

NoTarget == ""
InvalidUrl == [invalid |-> TRUE]

\* new URL(text): the protocol is the scheme in lower case with its colon,
\* toString() gives the normalised text; a text without a scheme throws
ParseUrl(text) ==
    CASE text = "http://a.example/s" -> [protocol |-> "http:", href |-> "http://a.example/s"]
      [] text = "HTTP://a.example/s" -> [protocol |-> "http:", href |-> "http://a.example/s"]
      [] text = "http://cdn.example/s" -> [protocol |-> "http:", href |-> "http://cdn.example/s"]
      [] text = "https://a.example/s" -> [protocol |-> "https:", href |-> "https://a.example/s"]
      [] text = "https://cdn.example/s" ->
           [protocol |-> "https:", href |-> "https://cdn.example/s"]
      [] text = "ftp://a.example/s" -> [protocol |-> "ftp:", href |-> "ftp://a.example/s"]
      [] text = "https://proxy.example" ->
           [protocol |-> "https:", href |-> "https://proxy.example/"]
      [] OTHER -> InvalidUrl

\* the url parameter of the request
StreamTargets ==
    {NoTarget, "http://a.example/s", "HTTP://a.example/s", "https://a.example/s",
     "ftp://a.example/s", "a.example/s"}

\* the ttl parameter of the request ("" when absent)
TtlTexts == {"", "60", "0", "abc"}

\* Number(text || DEFAULT_TTL_SECONDS), and the default unless it is finite
\* and positive
TtlSecondsOf(text) ==
    LET ttl == CASE text = "" -> DEFAULT_TTL_SECONDS
                 [] text = "60" -> 60
                 [] text = "0" -> 0
                 [] OTHER -> -1
        finite == text \in {"", "60", "0"}
    IN  IF finite /\ ttl > 0 THEN ttl ELSE DEFAULT_TTL_SECONDS

\* JSON.stringify of the forwarded headers, "" when there are none
ForwardedTexts == {"", "{\"user-agent\":\"x\"}"}

\* what a fetch of the redirect resolution gives: a response with its status
\* and final url, or a rejection (network error, abort by the timer)
FetchRejected == [rejected |-> TRUE]
ResolveResponses ==
    [status : {200, 403, 405},
     url : {"", "http://a.example/s", "http://cdn.example/s", "https://cdn.example/s"}]
ResolveResults == ResolveResponses \cup {FetchRejected}

StreamEnvs ==
    {ServerEnv, [ServerEnv EXCEPT !.STREAM_SIGNING_SECRET = ""],
     [ServerEnv EXCEPT !.STREAM_PROXY_BASE = ""]}

NoUrl == [none |-> TRUE]

\* resolveFinalUpstreamUrl: HEAD, a GET when HEAD is refused, resp.url or the
\* initial URL; null when a fetch rejects
resolveFinalUpstreamUrl(initialUpstreamUrl, head, get) ==
    IF head = FetchRejected THEN NoUrl
    ELSE LET resp == IF head.status \in {405, 403} THEN get ELSE head
         IN  IF resp = FetchRejected THEN NoUrl
             ELSE IF resp.url # "" THEN ParseUrl(resp.url)
             ELSE initialUpstreamUrl

\* the scheme test of both checks, accepting https as well
IsHttpOrHttps(u) == u.protocol \in {"http:", "https:"}

\* upstream.protocol === "http:"
IsHttp(u) == u.protocol = "http:"

\* hmacHex(secret, payload): the signature names its key and its text
hmacHex(secret, payload) == [hmac |-> secret, over |-> payload]

StreamError(status, message) ==
    [status |-> status, error |-> message, signed |-> <<>>, resolved |-> NoUrl]

handleStreamUrl(e, method, target, ttlText, fh, head, get, now) ==
    IF method # "GET" THEN StreamError(405, "method not allowed")
    ELSE IF target = NoTarget THEN StreamError(400, "url is required")
    ELSE IF e.STREAM_SIGNING_SECRET = ""
    THEN StreamError(500, "STREAM_SIGNING_SECRET is missing")
    ELSE IF e.STREAM_PROXY_BASE = "" THEN StreamError(500, "STREAM_PROXY_BASE is missing")
    ELSE
    LET upstream == ParseUrl(target)
    IN  IF upstream = InvalidUrl THEN StreamError(400, "invalid url")
        ELSE IF ~IsHttp(upstream) THEN StreamError(403, "only http sources allowed")
        ELSE
        LET ttlSeconds == TtlSecondsOf(ttlText)
            exp == now + ttlSeconds
            resolvedUpstream == resolveFinalUpstreamUrl(upstream, head, get)
        IN  IF resolvedUpstream = NoUrl
            THEN StreamError(502, "failed to resolve upstream")
            ELSE IF ~IsHttp(resolvedUpstream)
            THEN [StreamError(403, "only http sources allowed")
                     EXCEPT !.resolved = resolvedUpstream]
            ELSE
            LET payload == IF fh # "" THEN <<resolvedUpstream.href, exp, fh>>
                           ELSE <<resolvedUpstream.href, exp>>
                sig == hmacHex(e.STREAM_SIGNING_SECRET, payload)
                proxyBase == ParseUrl(e.STREAM_PROXY_BASE)
            IN  [status |-> 200, error |-> "", signed |-> <<sig>>,
                 resolved |-> resolvedUpstream,
                 body |-> [url |-> [origin |-> proxyBase.href, pathname |-> "/proxy",
                                    params |-> [url |-> resolvedUpstream.href, exp |-> exp,
                                                sig |-> sig, fh |-> fh]],
                           exp |-> exp, ttl |-> ttlSeconds]]

InitStream ==
    /\ IdleStore
    /\ IdleKey
    /\ IdleFresh
    /\ response = NoResponse
    /\ procs = NoProcs
    /\ env \in StreamEnvs

GetStreamUrl ==
    /\ response = NoResponse
    /\ \E method \in {"GET", "POST"}, target \in StreamTargets, ttlText \in TtlTexts,
          fh \in ForwardedTexts, head \in ResolveResults, get \in ResolveResults :
          response' = [n |-> 1, handler |-> "stream", method |-> method, target |-> target,
                       ttlText |-> ttlText, fh |-> fh, head |-> head, get |-> get]
                      @@ handleStreamUrl(env, method, target, ttlText, fh, head, get,
                                         NowSeconds(clock))
    /\ UNCHANGED <<env, procs, url, locale, key, store, clock, last, row, table, verdict>>

NextStream == GetStreamUrl

SpecStream == InitStream /\ [][NextStream]_vars

(***************************************************************************)
(* Claims about the stream URL                                             *)
(***************************************************************************)
StreamAnswered == Answered /\ response.handler = "stream"

\* the scheme of the text of a URL, in lower case
SchemeIsHttp(text) == text \in {"http://a.example/s", "HTTP://a.example/s", "http://cdn.example/s"}

\* the request reaches the examination of its url: GET, url given, server
\* configured
StreamExamined ==
    /\ StreamAnswered
    /\ response.method = "GET"
    /\ response.target # NoTarget
    /\ env = ServerEnv

\* the final response of the redirect resolution
FinalResponse ==
    IF response.head = FetchRejected THEN FetchRejected
    ELSE IF response.head.status \in {405, 403} THEN response.get
    ELSE response.head

\* the text of the final URL: resp.url, the requested URL when resp.url is empty
FinalText == IF FinalResponse.url # "" THEN FinalResponse.url ELSE response.target

\* C27: handleStreamUrl returns a signed proxy URL only when the requested
\* url and the final URL after redirect resolution both have scheme http:,
\* and what is signed and embedded is the resolved URL; a non-http requested
\* or resolved URL yields 403 and a failed resolution yields 502, without a
\* signature being produced.
C27_SignedOnlyForHttp ==
    StreamAnswered =>
        /\ (response.status = 200 \/ response.signed # <<>>) =>
              /\ response.status = 200
              /\ Len(response.signed) = 1
              /\ SchemeIsHttp(response.target)
              /\ FinalResponse # FetchRejected
              /\ SchemeIsHttp(FinalText)
              /\ response.resolved = ParseUrl(FinalText)
              /\ response.signed[1].over[1] = response.resolved.href
              /\ response.signed[1].hmac = env.STREAM_SIGNING_SECRET
              /\ response.body.url.params.url = response.resolved.href
              /\ response.body.url.params.sig = response.signed[1]
        /\ (StreamExamined /\ ParseUrl(response.target) # InvalidUrl) =>
              /\ ~SchemeIsHttp(response.target) =>
                    response.status = 403 /\ response.signed = <<>>
              /\ (SchemeIsHttp(response.target) /\ FinalResponse = FetchRejected) =>
                    response.status = 502 /\ response.signed = <<>>
              /\ (/\ SchemeIsHttp(response.target)
                  /\ FinalResponse # FetchRejected
                  /\ ~SchemeIsHttp(FinalText)) =>
                    response.status = 403 /\ response.signed = <<>>

\* an http source redirected to another http URL after a refused HEAD: the
\* redirect target is what is signed
C27_Witness ==
    /\ StreamAnswered
    /\ response.status = 200
    /\ response.head # FetchRejected
    /\ response.head.status = 405
    /\ response.resolved.href = "http://cdn.example/s"
    /\ response.resolved.href # ParseUrl(response.target).href
    /\ response.signed[1].over[1] = "http://cdn.example/s"

\* an http source that redirects to https is refused
C27_RedirectToHttpsRefused ==
    /\ StreamAnswered
    /\ SchemeIsHttp(response.target)
    /\ response.resolved # NoUrl
    /\ response.resolved.protocol = "https:"
    /\ response.status = 403
    /\ response.signed = <<>>

\* a resolution that fails
C27_ResolutionFailed ==
    /\ StreamAnswered
    /\ response.status = 502
    /\ response.signed = <<>>

\* without the signing secret the answer is 500 whatever the url's scheme
C27_UnconfiguredAnswers500 ==
    /\ StreamAnswered
    /\ env.STREAM_SIGNING_SECRET = ""
    /\ ~SchemeIsHttp(response.target)
    /\ response.target # NoTarget
    /\ response.status = 500
    /\ response.signed = <<>>


(***************************************************************************)
(* Claims about the season's stored episode list                           *)
(***************************************************************************)
\* the episodes the store held for the requested season when the request arrived
StoredSeasonEpisodes ==
    ListAt(response.before,
           EpisodesKey(response.req.id, response.req.season, response.req.language))

\* a season request that finds a non-empty episode list, none of it older
\* than the interval, while the store can be read
SeasonStoredAndFresh ==
    /\ Answered
    /\ response.handler = "season"
    /\ response.be.reads
    /\ StoredSeasonEpisodes # <<>>
    /\ \A i \in 1..Len(StoredSeasonEpisodes) : FreshElement(StoredSeasonEpisodes[i])

\* C29: getSeasonCacheMeta returns the number of episodes stored for the
\* season and their largest updated_at, so that handleSeriesSeason answers
\* from the record store whenever the stored episode list is non-empty and
\* not older than the interval.
C29_SeasonAnsweredFromStore ==
    SeasonStoredAndFresh =>
        /\ getSeasonCacheMeta(response.before, response.be).count = Len(StoredSeasonEpisodes)
        /\ response.source = "db"
        /\ response.calls = <<>>

\* what the code does: the count is 0 whatever is stored, and no season
\* request is answered from the record store
C29_SeasonNeverAnsweredFromStore ==
    (Answered /\ response.handler = "season") =>
        /\ getSeasonCacheMeta(response.before, response.be).count = 0
        /\ response.source # "db"

\* a season whose episodes are stored and fresh is fetched from upstream again
C29_StoredSeasonRefetched ==
    /\ SeasonStoredAndFresh
    /\ response.calls # <<>>


(***************************************************************************)
(* Claims about the order of the list reads                                *)
(***************************************************************************)
\* the elements of a list ascend by the numeric field f
Ascending(list, f) ==
    \A i \in 1..Len(list) : \A j \in 1..Len(list) : i < j => list[i][f] <= list[j][f]

SeasonsAscending ==
    \A id \in SeriesIds, language \in Languages :
        Ascending(readSeasons(store, Healthy, id, language), "season_number")

EpisodesAscending ==
    \A id \in SeriesIds, language \in Languages, n \in SeasonNumbers :
        Ascending(readSeasonEpisodes(store, Healthy, id, n, language), "episode_number")

GuestStarsAscending ==
    \A id \in SeriesIds, language \in Languages, n \in SeasonNumbers :
        LET episodes == readSeasonEpisodes(store, Healthy, id, n, language)
        IN  \A i \in 1..Len(episodes) : Ascending(episodes[i].guest_stars, "order")

\* C30: the list reads return their rows in the order their queries ask
\* for, whatever the order of the upserts: readSeasons ascending by
\* season_number, readSeasonEpisodes ascending by episode_number, each
\* episode's guest stars ascending by order_index.
C30_ListReadsOrdered ==
    /\ SeasonsAscending
    /\ EpisodesAscending
    /\ GuestStarsAscending

\* seasons upserted in descending order are read in that order
C30_SeasonsReadInInsertionOrder ==
    \E id \in SeriesIds, language \in Languages :
        LET seasons == readSeasons(store, Healthy, id, language)
        IN  /\ Len(seasons) >= 2
            /\ seasons[1].season_number > seasons[2].season_number

\* episodes and guest stars likewise
C30_EpisodesReadInInsertionOrder == ~EpisodesAscending

C30_GuestStarsReadInInsertionOrder == ~GuestStarsAscending


(***************************************************************************)
(* Claims about the guest stars of a single episode read                   *)
(***************************************************************************)
\* the guest stars stored on the element itself, as readEpisode presents guests
OwnGuestStars(seriesId, episodeRow) == GuestViews(seriesId, FlattenGuests(<<episodeRow>>))

\* C31: readEpisode returns as guest_stars exactly the guest stars stored
\* on that episode; a guest star stored only on another episode of the
\* season never appears in the result.
C31_EpisodeReadHasOwnGuests ==
    \A id \in SeriesIds, language \in Languages, n \in SeasonNumbers, e \in EpisodeIds :
        LET episodeRow == FirstEpisode(store, Healthy, id, language, n, e)
        IN  episodeRow # AbsentRow =>
                readEpisode(store, Healthy, id, n, e, language).guest_stars
                    = OwnGuestStars(id, episodeRow)

\* what the code returns: the guest stars of every episode of the season
C31_EpisodeReadHasSeasonGuests ==
    \A id \in SeriesIds, language \in Languages, n \in SeasonNumbers, e \in EpisodeIds :
        LET episodeRow == FirstEpisode(store, Healthy, id, language, n, e)
        IN  episodeRow # AbsentRow =>
                readEpisode(store, Healthy, id, n, e, language).guest_stars
                    = GuestViews(id, FlattenGuests(ListAt(store, EpisodesKey(id, n, language))))

\* an episode without guest stars of its own is read with another episode's guest
C31_ForeignGuestRead ==
    \E id \in SeriesIds, language \in Languages, n \in SeasonNumbers, e \in EpisodeIds :
        LET episodeRow == FirstEpisode(store, Healthy, id, language, n, e)
        IN  /\ episodeRow # AbsentRow
            /\ OwnGuestStars(id, episodeRow) = <<>>
            /\ readEpisode(store, Healthy, id, n, e, language).guest_stars # <<>>


(***************************************************************************)
(* SpecBoot: startServer and ensureRedisReady of server.js.  Time passes   *)
(* only at the awaits: while a ping is in flight and while the loop sleeps *)
(***************************************************************************)
\* REDIS_WAIT_SECONDS and REDIS_WAIT_INTERVAL_MS, in ticks, and the last
\* tick at which a ping in flight may still be unanswered
WaitTicks == 3
IntervalTicks == 1
MaxBootTicks == 5

BootEnvs == {ServerEnv @@ [REDIS_URL |-> "redis://store:6379"], ServerEnv @@ [REDIS_URL |-> ""]}

\* what client.ping() resolves with, or that it rejects
PingRejected == "rejected"
PingResults == {"PONG", "pong", "QUEUED", PingRejected}

\* any answer of the store counts as ready
IsAnswered(res) == res # PingRejected

\* res === "PONG" || res === "pong"
IsPong(res) == res \in {"PONG", "pong"}

Boot == procs.boot

InitBoot ==
    /\ IdleStore
    /\ IdleKey
    /\ IdleFresh
    /\ response = NoResponse
    /\ env \in BootEnvs
    /\ procs = [boot |-> [pc |-> "start", pings |-> <<>>]]

BootUnchanged == UNCHANGED <<env, response, store, last, url, locale, key, row, table, verdict>>

\* while (Date.now() < deadline): the next ping is sent, or ensureRedisReady
\* throws and startServer's catch calls process.exit(1)
LoopTest(boot, deadline) ==
    IF clock < deadline
    THEN [boot EXCEPT !.pc = "pinging",
                      !.pings = Append(boot.pings, [sent |-> clock])]
    ELSE [boot EXCEPT !.pc = "exited"] @@ [status |-> 1]

\* startServer up to its first await, or to app.listen without REDIS_URL
StartServer ==
    /\ Boot.pc = "start"
    /\ procs' = [procs EXCEPT !.boot =
                    IF env.REDIS_URL = "" THEN [Boot EXCEPT !.pc = "listening"]
                    ELSE LoopTest(Boot @@ [deadline |-> clock + WaitTicks],
                                  clock + WaitTicks)]
    /\ UNCHANGED clock
    /\ BootUnchanged

BootTick ==
    /\ \/ Boot.pc = "pinging" /\ clock < MaxBootTicks
       \/ Boot.pc = "sleeping" /\ clock < Boot.wake
    /\ clock' = clock + 1
    /\ UNCHANGED procs
    /\ BootUnchanged

\* await client.ping() settles: on PONG ensureRedisReady returns and
\* app.listen is called, otherwise the loop sleeps for the interval
PingSettles ==
    /\ Boot.pc = "pinging"
    /\ \E res \in PingResults :
          LET n == Len(Boot.pings)
              pings == [Boot.pings EXCEPT ![n] = [sent |-> Boot.pings[n].sent,
                                                  settled |-> clock, res |-> res]]
          IN  procs' = [procs EXCEPT !.boot =
                           IF IsPong(res)
                           THEN [Boot EXCEPT !.pc = "listening", !.pings = pings]
                           ELSE [Boot EXCEPT !.pc = "sleeping", !.pings = pings]
                                @@ [wake |-> clock + IntervalTicks]]
    /\ UNCHANGED clock
    /\ BootUnchanged

\* setTimeout(r, intervalMs) fires and the loop tests the deadline again
SleepEnds ==
    /\ Boot.pc = "sleeping"
    /\ clock >= Boot.wake
    /\ procs' = [procs EXCEPT !.boot =
                    LoopTest([f \in DOMAIN Boot \ {"wake"} |-> Boot[f]], Boot.deadline)]
    /\ UNCHANGED clock
    /\ BootUnchanged

NextBoot ==
    \/ StartServer
    \/ BootTick
    \/ PingSettles
    \/ SleepEnds

SpecBoot == InitBoot /\ [][NextBoot]_vars

(***************************************************************************)
(* Claims about the start of the server                                    *)
(***************************************************************************)
Booting == procs # NoProcs /\ "boot" \in DOMAIN procs

StoreConfigured == env.REDIS_URL # ""

Listening == Booting /\ Boot.pc = "listening"
Exited == Booting /\ Boot.pc = "exited"

\* the pings that have settled
SettledPings == {i \in 1..Len(Boot.pings) : "res" \in DOMAIN Boot.pings[i]}

\* the server listens only after PONG, a failed ping is retried a full
\* interval later, and the exit is with status 1, after the deadline, with
\* no PONG received
BootSafe ==
    (Booting /\ StoreConfigured) =>
        /\ Listening =>
              /\ Boot.pings # <<>>
              /\ Len(Boot.pings) \in SettledPings
              /\ Boot.pings[Len(Boot.pings)].res \in {"PONG", "pong"}
              /\ Boot.pings[Len(Boot.pings)].sent < Boot.deadline
        /\ \A i \in SettledPings :
              /\ i < Len(Boot.pings) =>
                    /\ Boot.pings[i].res \notin {"PONG", "pong"}
                    /\ Boot.pings[i + 1].sent >= Boot.pings[i].settled + IntervalTicks
              /\ Boot.pings[i].sent < Boot.deadline
        /\ Exited =>
              /\ Boot.status = 1
              /\ clock >= Boot.deadline
              /\ \A i \in 1..Len(Boot.pings) :
                    i \in SettledPings /\ Boot.pings[i].res \notin {"PONG", "pong"}

\* C32 (as the code has it): with REDIS_URL configured the server listens
\* only after a ping returned PONG; a failing ping is retried after the wait
\* interval; when the loop finds the deadline passed with no PONG received,
\* the process exits with status 1 and never listens.  The deadline is
\* tested only between pings: a ping sent before it decides whenever it
\* settles.
C32_ListensOnlyAfterPong ==
    /\ []BootSafe
    /\ [][(Exited => Exited') /\ (Listening => Listening')]_vars

\* C32 as stated: a server that listens has received PONG before the
\* deadline; if no ping succeeds before the deadline the server never
\* listens.
C32_PongBeforeDeadline ==
    (Booting /\ StoreConfigured /\ Listening) =>
        \E i \in SettledPings :
            /\ Boot.pings[i].res \in {"PONG", "pong"}
            /\ Boot.pings[i].settled < Boot.deadline

\* a first ping failed, the retry came an interval later and returned PONG
C32_Witness ==
    /\ Booting
    /\ StoreConfigured
    /\ Listening
    /\ Len(Boot.pings) = 2
    /\ Boot.pings[1].res = PingRejected
    /\ Boot.pings[2].sent = Boot.pings[1].settled + IntervalTicks
    /\ Boot.pings[2].res = "PONG"

\* every ping failed and the process exited
C32_ExitedWithoutPong ==
    /\ Booting
    /\ StoreConfigured
    /\ Exited
    /\ Boot.status = 1
    /\ Len(Boot.pings) >= 2

\* a ping sent before the deadline returned PONG after it and the server listens
C32_ListensAfterDeadline ==
    /\ Booting
    /\ StoreConfigured
    /\ Listening
    /\ clock >= Boot.deadline


(***************************************************************************)
(* SpecLists: two run() calls of the list tables in flight at once.  Each  *)
(* run() awaits cacheGet, changes the array it got, and awaits cacheSet    *)
(***************************************************************************)
ListProcs == {1, 2}

\* the statements with their bound parameters
ListStatements ==
    {[table |-> "series_seasons", child |-> s.id,
      p |-> BindSeason(RaceSeriesId, RaceLanguage, s, 0)] :
        s \in {x \in SeasonObjects : "name" \in DOMAIN x}}
    \cup {[table |-> "series_episodes", child |-> e.id,
           p |-> BindEpisode(RaceSeriesId, 1, RaceLanguage, e, 0)] :
        e \in {x \in EpisodeObjects : "name" \in DOMAIN x}}
    \cup {[table |-> "episode_guest_stars", child |-> e.id,
           p |-> BindGuestStar(RaceSeriesId, 1, RaceLanguage, e, g, 0)] :
        e \in {x \in EpisodeObjects : "name" \in DOMAIN x},
        g \in {x \in GuestObjects : x.id = 1 /\ x.character = "c-a"}}

\* the store key of the array the statement changes
ListKeyOf(stmt) ==
    IF stmt.table = "series_seasons" THEN SeasonsKey(stmt.p.seriesId, stmt.p.language)
    ELSE EpisodesKey(stmt.p.seriesId, stmt.p.season_number, stmt.p.language)

\* run() of the statement over the store st
RunStatement(st, stmt) ==
    CASE stmt.table = "series_seasons" -> RunInsertSeason(st, stmt.p)
      [] stmt.table = "series_episodes" -> RunInsertEpisode(st, stmt.p)
      [] stmt.table = "episode_guest_stars" -> RunInsertGuestStar(st, stmt.p)

\* the stores the two statements may find: empty, or the episodes of the
\* season already stored without guest stars
ListStores ==
    {EmptyStore,
     upsertSeasonEpisodes(EmptyStore, RaceSeriesId, 1, RaceLanguage,
                          <<CHOOSE e \in EpisodeObjects : e.id = 1 /\ "name" \in DOMAIN e>>, 0)}

InitLists ==
    /\ clock = 0
    /\ IdleKey
    /\ IdleFresh
    /\ response = NoResponse
    /\ env = ServerEnv
    /\ store \in ListStores
    /\ last = [op |-> "lists", n |-> 0, before |-> store]
    /\ \E s1 \in ListStatements, s2 \in ListStatements :
          /\ s1 # s2
          /\ procs = [p \in ListProcs |->
                         [pc |-> "get", stmt |-> IF p = 1 THEN s1 ELSE s2]]

ListsUnchanged == UNCHANGED <<env, response, clock, url, locale, key, row, table, verdict>>

\* const arr = (await cacheGet(env, key)) || []
ListGet(p) ==
    /\ procs[p].pc = "get"
    /\ procs' = [procs EXCEPT ![p] =
                    [pc |-> "set", stmt |-> procs[p].stmt, got |-> store,
                     gotAt |-> last.n + 1]]
    /\ last' = [last EXCEPT !.n = last.n + 1]
    /\ UNCHANGED store
    /\ ListsUnchanged

\* await cacheSet(env, key, arr, CACHE_INTERVAL_SECONDS) of the array that
\* was read, changed by the statement
ListSet(p) ==
    /\ procs[p].pc = "set"
    /\ LET k == ListKeyOf(procs[p].stmt)
           written == RunStatement(procs[p].got, procs[p].stmt)
       IN  store' = IF k \in DOMAIN written THEN (k :> written[k]) @@ store ELSE store
    /\ procs' = [procs EXCEPT ![p] = [procs[p] EXCEPT !.pc = "done"]
                                     @@ [setAt |-> last.n + 1]]
    /\ last' = [last EXCEPT !.n = last.n + 1]
    /\ ListsUnchanged

NextLists ==
    \E p \in ListProcs :
        \/ ListGet(p)
        \/ ListSet(p)

SpecLists == InitLists /\ [][NextLists]_vars

(***************************************************************************)
(* Claims about concurrent list upserts                                    *)
(***************************************************************************)
ListsDone ==
    /\ procs # NoProcs
    /\ DOMAIN procs = ListProcs
    /\ \A p \in ListProcs : procs[p].pc = "done"

\* the one run() had written before the other read
RunsSerial ==
    \/ procs[1].setAt < procs[2].gotAt
    \/ procs[2].setAt < procs[1].gotAt

\* two upserts of different children of the same parent list
SiblingUpserts ==
    /\ ListsDone
    /\ procs[1].stmt.table = procs[2].stmt.table
    /\ procs[1].stmt.table \in {"series_seasons", "series_episodes"}
    /\ procs[1].stmt.child # procs[2].stmt.child

StoredChildren(stmt) ==
    LET arr == ListAt(store, ListKeyOf(stmt))
    IN  {arr[i].id : i \in 1..Len(arr)}

SerialResults ==
    {RunStatement(RunStatement(last.before, procs[1].stmt), procs[2].stmt),
     RunStatement(RunStatement(last.before, procs[2].stmt), procs[1].stmt)}

\* C33: when two list upserts for different child ids under the same parent
\* key run concurrently and both complete, the stored list contains both
\* children: the result is that of running the two one after the other in
\* some order.
C33_BothChildrenStored ==
    SiblingUpserts =>
        /\ {procs[1].stmt.child, procs[2].stmt.child} \subseteq StoredChildren(procs[1].stmt)
        /\ store \in SerialResults

\* it holds for the runs that do not overlap
C33_SerialRunsKeepBoth ==
    (SiblingUpserts /\ RunsSerial) =>
        /\ {procs[1].stmt.child, procs[2].stmt.child} \subseteq StoredChildren(procs[1].stmt)
        /\ store \in SerialResults

\* both read the list before either wrote: the child written first is lost
C33_ChildLost ==
    /\ SiblingUpserts
    /\ ~RunsSerial
    /\ Cardinality(StoredChildren(procs[1].stmt)) = 1

\* an episode upsert and a guest-star upsert for the same episode
EpisodeAndGuestUpserts ==
    /\ ListsDone
    /\ \E p \in ListProcs, q \in ListProcs :
          /\ procs[p].stmt.table = "series_episodes"
          /\ procs[q].stmt.table = "episode_guest_stars"
          /\ procs[p].stmt.child = procs[q].stmt.child

\* the guest ids stored on the episode with the id
StoredGuestIds(stmt) ==
    LET arr == ListAt(store, ListKeyOf(stmt))
        idx == FindIndex(arr, "episode_id", stmt.child)
        guests == IF idx > 0 THEN OrElse(arr[idx], "guest_stars", <<>>) ELSE <<>>
    IN  {guests[i].id : i \in 1..Len(guests)}

\* C34: when an episode upsert runs concurrently with a guest-star upsert
\* for the same episode, after both complete the episode's stored
\* guest_stars still contains the guest written by the guest-star upsert.
C34_GuestSurvivesEpisodeUpsert ==
    EpisodeAndGuestUpserts =>
        \A q \in ListProcs :
            procs[q].stmt.table = "episode_guest_stars" =>
                procs[q].stmt.p.guest_id \in StoredGuestIds(procs[q].stmt)

\* it holds for the runs that do not overlap
C34_SerialRunsKeepGuest ==
    (EpisodeAndGuestUpserts /\ RunsSerial) =>
        \A q \in ListProcs :
            procs[q].stmt.table = "episode_guest_stars" =>
                procs[q].stmt.p.guest_id \in StoredGuestIds(procs[q].stmt)

\* the episode upsert read before the guest was written and wrote after it:
\* the episode is stored without guest stars
C34_GuestLost ==
    /\ EpisodeAndGuestUpserts
    /\ ~RunsSerial
    /\ \E q \in ListProcs :
          /\ procs[q].stmt.table = "episode_guest_stars"
          /\ StoredGuestIds(procs[q].stmt) = {}


(***************************************************************************)
(* Claims about the body answered on a cache hit                           *)
(***************************************************************************)
\* the request just answered from upstream is repeated and answered from
\* the record store or from the response cached under the URL
HitAfterPopulate(handlers) ==
    /\ AnsweredFromUpstream
    /\ response.handler \in handlers
    /\ response.be = Healthy
    /\ RepeatedRequest
    /\ response'.status = 200
    /\ response'.calls = <<>>

\* C35: for every handler and every request URL, the body answered on a
\* cache hit equals the body the populating request answered from its
\* upstream fetch (same fields, same shape).
C35_HitBodyEqualsUpstreamBody ==
    [][HitAfterPopulate({response.handler}) => response'.body = response.body]_vars

\* the handlers whose hit answers the body of the populating request
C35_SameBodyHandlers ==
    [][HitAfterPopulate({"movie", "series"}) => response'.body = response.body]_vars

\* a season answered from the cached response: the cached value is the
\* upstream episodes array, not the payload the first request answered
C35_SeasonHitDiffers ==
    /\ AnsweredFromCache
    /\ response.n = 2
    /\ response.handler = "season"
    /\ response.source = "redis"
    /\ response.body # <<>>
    /\ response.body # SeasonPayload(response.req.id, response.body)

\* a movie answered from its stored row: channelId and updatedAt are added
C35_MovieRowHitDiffers ==
    /\ AnsweredFromCache
    /\ response.n = 2
    /\ response.handler = "movie rows"
    /\ response.source = "db"
    /\ "updatedAt" \in DOMAIN response.body


(***************************************************************************)
(* SpecNames: the store keys the record store builds from natural keys     *)
(***************************************************************************)
MaxNames == 3

\* channel ids and languages are the strings of the request; ids and season
\* numbers are numbers
NameChannels == {"ch1", "x", "x?lang=y"}
NameLanguages == {"", "en", "y?lang="}
NameIds == {1, 27205}

NaturalKeys ==
    [table : {"movies_by_channel"}, channelId : NameChannels, language : NameLanguages]
    \cup [table : {"movies_by_id", "series_by_id", "series_seasons"},
          id : NameIds, language : NameLanguages]
    \cup [table : {"series_episodes"}, id : NameIds, season : SeasonNumbers,
          language : NameLanguages]

\* the key first() / all() / run() build for the natural key
StoreKeyOf(nk) ==
    CASE nk.table = "movies_by_channel" -> MovieChannelKey(nk.channelId, nk.language)
      [] nk.table = "movies_by_id" -> MovieIdKey(nk.id, nk.language)
      [] nk.table = "series_by_id" -> SeriesIdKey(nk.id, nk.language)
      [] nk.table = "series_seasons" -> SeasonsKey(nk.id, nk.language)
      [] nk.table = "series_episodes" -> EpisodesKey(nk.id, nk.season, nk.language)

\* one upsert under the natural key
WriteUnder(st, nk, now) ==
    CASE nk.table = "movies_by_channel" ->
           upsertMovieByChannel(st, Healthy, nk.channelId, nk.language,
                                CHOOSE p \in MoviePayloads : "rating" \notin DOMAIN p, now)
      [] nk.table = "movies_by_id" ->
           upsertMovieById(st, Healthy, nk.language,
                           [(CHOOSE p \in MoviePayloads : "rating" \notin DOMAIN p)
                               EXCEPT !.movieId = nk.id], now)
      [] nk.table = "series_by_id" ->
           upsertSeries(st, Healthy, nk.language,
                        [(CHOOSE d \in SearchItems : TRUE) EXCEPT !.id = nk.id], now)
      [] nk.table = "series_seasons" ->
           upsertSeasons(st, nk.id, nk.language,
                         <<CHOOSE s \in SeasonObjects : s.id = 1 /\ "name" \in DOMAIN s>>, now)
      [] nk.table = "series_episodes" ->
           upsertSeasonEpisodes(st, nk.id, nk.season, nk.language,
                                <<CHOOSE e \in EpisodeObjects :
                                     e.id = 1 /\ "name" \in DOMAIN e>>, now)

InitNames ==
    /\ store = EmptyStore
    /\ clock = 0
    /\ last = [op |-> "names", written |-> {}]
    /\ IdleKey
    /\ IdleFresh
    /\ IdleServe

UpsertUnder ==
    /\ Cardinality(last.written) < MaxNames
    /\ \E nk \in NaturalKeys :
          /\ nk \notin last.written
          /\ store' = WriteUnder(store, nk, NowSeconds(clock))
          /\ last' = [last EXCEPT !.written = last.written \cup {nk}]
    /\ UNCHANGED <<env, procs, response, clock, url, locale, key, row, table, verdict>>

NextNames == UpsertUnder

SpecNames == InitNames /\ [][NextNames]_vars

(***************************************************************************)
(* Claims about the store keys                                             *)
(***************************************************************************)
NamesWritten == last.op = "names"

\* C36: the mapping from (table, natural key) to store key is injective:
\* two different natural keys of a table, with arbitrary string values,
\* never map to the same store key, and keys of different tables never
\* coincide.
C36_StoreKeysInjective ==
    NamesWritten =>
        /\ \A a \in last.written, b \in last.written :
              a # b => StoreKeyOf(a) # StoreKeyOf(b)
        /\ Cardinality(DOMAIN store) = Cardinality(last.written)

\* it holds between tables and within the tables whose key has one string
C36_OtherTablesInjective ==
    NamesWritten =>
        \A a \in last.written, b \in last.written :
            (a # b /\ (a.table # b.table \/ a.table # "movies_by_channel"))
                => StoreKeyOf(a) # StoreKeyOf(b)

\* two movies stored under different (channelId, language) pairs share one
\* store entry
C36_ChannelKeysCollide ==
    /\ NamesWritten
    /\ \E a \in last.written, b \in last.written :
          /\ a.table = "movies_by_channel"
          /\ b.table = "movies_by_channel"
          /\ a # b
          /\ StoreKeyOf(a) = StoreKeyOf(b)
    /\ Cardinality(DOMAIN store) < Cardinality(last.written)

=============================================================================
